---- MODULE Spec2Model ----
(***************************************************************************)
(* Model of the Discord listener's signal pipeline:                        *)
(*   ChannelFilter (src/src/channel_filter.py),                            *)
(*   TradingAgent._parse_response / analyze (src/src/trading_agent.py),    *)
(*   ExchangeClient (src/src/exchange_client.py),                          *)
(*   ListenerScript._on_message / _process_message_async (src/src/main.py).*)
(*                                                                         *)
(* The event loop is cooperative: an action is the code that runs between  *)
(* two suspension points (await of the LLM call, of create_market_order,   *)
(* of load_markets).  USDT amounts are modelled as integers.               *)
(***************************************************************************)
EXTENDS Integers, Sequences, FiniteSets, TLC

\* ------------------------------------------------------------------ bounds
\* Number of console events handled in one run.
MaxEvents == 2

\* Number of direct place_order calls in the direct-call specification.
MaxDirectCalls == 2

\* ------------------------------------------------------- program constants
\* TradingConfig defaults (tests/test_models.py: TestTradingConfig).
DefaultThreshold == 70

DefaultMaxAmount == 100

\* ExchangeClient.SUPPORTED_EXCHANGES keys.
SUPPORTED_EXCHANGES == {"binance", "bybit", "mexc"}

\* --------------------------------------------------------------- universes
\* Channel names carried by inbound events.
Channels == {"crypto-signals", "general"}

\* An entry of trading.enabled_exchanges that is not a string (the YAML list
\* is not validated, so e.g. an integer can appear); .lower() raises on it.
NonStringName == "#7"

IsStr(name) == name # NonStringName

\* str.lower() on the exchange names and side tokens that occur in the model.
Lower(s) ==
    CASE s = "Binance" -> "binance"
      [] s = "BYBIT"   -> "bybit"
      [] s = "BUY"     -> "buy"
      [] s = "SELL"    -> "sell"
      [] s = "HOLD"    -> "hold"
      [] OTHER         -> s

\* The value of "no signal" / None.
NoSignal == [symbol |-> "", side |-> "", confidence |-> -1, summary |-> ""]

\* Values of trading.enabled_exchanges after _parse_config: the YAML value is
\* taken as is, so it may be a scalar that cannot be iterated.
EnabledChoices ==
    { [iterable |-> FALSE, items |-> << >>],
      [iterable |-> TRUE,  items |-> << >>],
      [iterable |-> TRUE,  items |-> <<"binance">>],
      [iterable |-> TRUE,  items |-> <<"binance", "bybit">>],
      [iterable |-> TRUE,  items |-> <<"Binance", "binance">>],
      [iterable |-> TRUE,  items |-> <<NonStringName, "bybit">>],
      [iterable |-> TRUE,  items |-> <<"kraken", "binance">>] }

TargetChoices == { << >>, <<"crypto-signals", "trading-alerts">> }

\* Connector sets left by _init_exchanges.
ExchangeSetChoices == { {}, {"binance"}, {"binance", "bybit"} }

VARIABLES
    config,      \* AppConfig: read_only_mode, target_channels, trading
    exchanges,   \* ExchangeClient.exchanges: names of initialised connectors
    events,      \* console events handled so far: [channel, passed]
    tasks,       \* units of work / callers, in spawn order
    orders,      \* create_market_order requests sent to an exchange
    escaped,     \* tasks whose exception left the unit of work unhandled
    arg,         \* input of the function applied by a function-level specification
    ret,         \* << >> before the function is applied, <<result>> after
    phase        \* "listening" (running), "stopping" (running cleared),
                 \* "shutdown" (listeners removed), "closed" (event loop over)

vars == <<config, exchanges, events, tasks, orders, escaped, arg, ret, phase>>

\* ------------------------------------------------------------ ChannelFilter
\* Variant of should_process that compares channel names ignoring case.
should_process_casefold(target_channels, channel_name) ==
    LET Fold(s) == IF s = "Crypto-Signals" THEN "crypto-signals" ELSE s
    IN IF target_channels = << >>
       THEN FALSE
       ELSE \E i \in 1..Len(target_channels) :
                Fold(target_channels[i]) = Fold(channel_name)

should_process(target_channels, channel_name) ==
    IF target_channels = << >>
    THEN FALSE
    ELSE \E i \in 1..Len(target_channels) : target_channels[i] = channel_name

\* Variant of filter_message that lets every message through.
filter_message_pass_all(target_channels, message) == <<message>>

\* Returns <<message>> when the message passes and << >> (None) otherwise.
filter_message(target_channels, message) ==
    IF should_process(target_channels, message.channel)
    THEN <<message>>
    ELSE << >>

\* ------------------------------------------------------------ TradingAgent
\* str.strip() as far as emptiness goes: whitespace-only text strips to "".
Strip(s) == IF s \in {" ", "   "} THEN "" ELSE s

\* Variant of validate that stops at the first violated check.
validate_short_circuit(signal) ==
    IF signal.side \notin {"BUY", "SELL"} THEN <<"side">>
    ELSE IF ~(signal.conf_type = "int"
              /\ signal.confidence >= 0 /\ signal.confidence <= 100)
    THEN <<"confidence">>
    ELSE IF Strip(signal.symbol) = "" THEN <<"symbol">>
    ELSE IF Strip(signal.summary) = "" THEN <<"summary">>
    ELSE << >>

\* TradeSignal.validate: the list of violated checks, all four evaluated.
\* conf_type is the Python type of the confidence value; a float's value is
\* held in tenths.
validate(signal) ==
    (IF signal.side \in {"BUY", "SELL"} THEN << >> ELSE <<"side">>)
    \o (IF signal.conf_type = "int"
           /\ signal.confidence >= 0 /\ signal.confidence <= 100
        THEN << >> ELSE <<"confidence">>)
    \o (IF Strip(signal.symbol) = "" THEN <<"symbol">> ELSE << >>)
    \o (IF Strip(signal.summary) = "" THEN <<"summary">> ELSE << >>)

\* A JSON object answered by the analysis boundary, confidence of conf_type.
JsonTyped(has_signal, symbol, side, conf_type, confidence, summary) ==
    [kind |-> "json", has_signal |-> has_signal, symbol |-> symbol,
     side |-> side, conf_type |-> conf_type, confidence |-> confidence,
     summary |-> summary]

\* A JSON object answered by the analysis boundary, confidence an integer.
Json(has_signal, symbol, side, confidence, summary) ==
    JsonTyped(has_signal, symbol, side, "int", confidence, summary)

\* Responses of the analysis boundary: an API error, an empty completion,
\* text that is not JSON, or a JSON object (a valid signal at the default
\* threshold, one just below it, and objects that violate one TradeSignal
\* check).
Responses ==
    [kind : {"api_error", "empty", "unparsable"},
     has_signal : {FALSE}, symbol : {""}, side : {""}, conf_type : {"int"},
     confidence : {0}, summary : {""}]
    \cup
    { Json(FALSE, "", "", 0, "s"),
      Json(TRUE, "BTC/USDT", "BUY", DefaultThreshold, "s"),
      Json(TRUE, "ETH/USDT", "SELL", DefaultThreshold - 1, "s"),
      Json(TRUE, "BTC/USDT", "HOLD", DefaultThreshold, "s"),
      Json(TRUE, "BTC/USDT", "BUY", 101, "s"),
      Json(TRUE, "", "SELL", DefaultThreshold, "s"),
      Json(TRUE, "BTC/USDT", "SELL", DefaultThreshold, "") }

\* Variant of IntOfFloat that rounds to the nearest integer.
IntOfFloat_round(tenths) == (tenths + 5) \div 10

\* int() of a float held in tenths: truncation toward zero.
IntOfFloat(tenths) ==
    IF tenths >= 0 THEN tenths \div 10 ELSE -((-tenths) \div 10)

\* _parse_response lets an exception out: data.get on JSON that is not an
\* object (AttributeError), int() of an infinite float (OverflowError).
_parse_response_raises(response) ==
    \/ response.kind = "non_object"
    \/ /\ response.kind = "json"
       /\ response.has_signal
       /\ response.conf_type = "float_inf"

\* TradingAgent._parse_response where it returns: None or the TradeSignal.
_parse_response(response) ==
    IF response.kind = "unparsable"
    THEN NoSignal
    ELSE IF ~response.has_signal
    THEN NoSignal
    ELSE IF response.conf_type = "float_nan"
    THEN NoSignal
    ELSE LET confidence == IF response.conf_type = "float"
                           THEN IntOfFloat(response.confidence)
                           ELSE response.confidence
             conf_type == IF response.conf_type = "float"
                          THEN "int" ELSE response.conf_type
             signal == [symbol |-> response.symbol, side |-> response.side,
                        conf_type |-> conf_type, confidence |-> confidence,
                        summary |-> response.summary]
         IN IF validate(signal) # << >>
            THEN NoSignal
            ELSE [symbol |-> signal.symbol, side |-> signal.side,
                  confidence |-> signal.confidence,
                  summary |-> signal.summary]

\* Variant of analyze_outcome without the final except Exception clause.
analyze_outcome_no_catch_all(response) ==
    IF response.kind = "api_error"
    THEN [raised |-> FALSE, signal |-> NoSignal]
    ELSE IF response.kind = "client_error"
    THEN [raised |-> TRUE, signal |-> NoSignal]
    ELSE IF response.kind = "empty"
    THEN [raised |-> FALSE, signal |-> NoSignal]
    ELSE IF _parse_response_raises(response)
    THEN [raised |-> TRUE, signal |-> NoSignal]
    ELSE [raised |-> FALSE, signal |-> _parse_response(response)]

\* TradingAgent.analyze from the answer of the analysis boundary on: whether
\* an exception leaves analyze, and what it returns.
analyze_outcome(response) ==
    IF response.kind \in {"api_error", "client_error"}
    THEN [raised |-> FALSE, signal |-> NoSignal]
    ELSE IF response.kind = "empty"
    THEN [raised |-> FALSE, signal |-> NoSignal]
    ELSE IF _parse_response_raises(response)
    THEN [raised |-> FALSE, signal |-> NoSignal]
    ELSE [raised |-> FALSE, signal |-> _parse_response(response)]

analyze(response) == analyze_outcome(response).signal

\* ---------------------------------------------------------- ExchangeClient
\* _init_exchanges from entry i on, acc the connector names created so far;
\* fails are the positions whose ccxt constructor raises.
RECURSIVE _init_exchanges_from(_, _, _, _)
_init_exchanges_from(configs, fails, i, acc) ==
    IF i > Len(configs)
    THEN acc
    ELSE IF ~configs[i].enabled
    THEN _init_exchanges_from(configs, fails, i + 1, acc)
    ELSE IF Lower(configs[i].name) \notin SUPPORTED_EXCHANGES
    THEN _init_exchanges_from(configs, fails, i + 1, acc)
    ELSE IF i \in fails
    THEN _init_exchanges_from(configs, fails, i + 1, acc)
    ELSE _init_exchanges_from(configs, fails, i + 1,
                              acc \cup {Lower(configs[i].name)})

\* Variant of _init_exchanges that gives up at the first constructor failure.
_init_exchanges_abort(configs, fails) ==
    LET failed == {i \in 1..Len(configs) :
                      /\ configs[i].enabled
                      /\ Lower(configs[i].name) \in SUPPORTED_EXCHANGES
                      /\ i \in fails}
        first == IF failed = {} THEN Len(configs) + 1
                 ELSE CHOOSE i \in failed : \A j \in failed : i <= j
    IN _init_exchanges_from(SubSeq(configs, 1, first - 1), fails, 1, {})

\* ExchangeClient._init_exchanges: the keys of self.exchanges it leaves.
_init_exchanges(configs, fails) == _init_exchanges_from(configs, fails, 1, {})

\* float('nan'), held as a number that no amount and no limit takes.
NaN == -999

\* x <= y on Python numbers: every comparison with NaN is false.
Le(x, y) == x # NaN /\ y # NaN /\ x <= y

\* Variant of _check_confidence with a strict comparison.
_check_confidence_strict(signal, trading_config) ==
    signal.confidence > trading_config.confidence_threshold

_check_confidence(signal, trading_config) ==
    signal.confidence >= trading_config.confidence_threshold

\* Variant of _check_amount_limit that accepts every amount.
_check_amount_limit_none(amount_usdt, trading_config) == TRUE

_check_amount_limit(amount_usdt, trading_config) ==
    Le(amount_usdt, trading_config.max_trade_amount_usdt)

\* Variant of place_order_entry without the "exchange is initialised" check.
place_order_entry_no_init_check(signal, exchange_name, amount_usdt) ==
    IF ~IsStr(exchange_name)
    THEN [name |-> exchange_name, exchange |-> exchange_name,
          amount |-> amount_usdt, result |-> "raised", outcome |-> "none",
          submits |-> 0, reloads |-> 0, recovered |-> "none"]
    ELSE
    LET lowered == Lower(exchange_name)
        amount  == IF Le(amount_usdt, 0)
                   THEN config.trading.max_trade_amount_usdt
                   ELSE amount_usdt
        result  == IF ~_check_confidence(signal, config.trading) THEN "skip_conf"
                   ELSE IF ~_check_amount_limit(amount, config.trading) THEN "skip_amount"
                   ELSE "pending"
    IN [name |-> exchange_name, exchange |-> lowered, amount |-> amount,
        result |-> result, outcome |-> "none",
        submits |-> IF result = "pending" THEN 1 ELSE 0,
        reloads |-> 0, recovered |-> "none"]

\* place_order up to its first await: the call record it leaves.  result is
\* "pending" when create_market_order has been sent, otherwise the call is
\* over: "raised" (exchange_name.lower() failed, outside the try),
\* "skip_uninit", "skip_conf" or "skip_amount".
place_order_entry(signal, exchange_name, amount_usdt) ==
    IF ~IsStr(exchange_name)
    THEN [name |-> exchange_name, exchange |-> exchange_name,
          amount |-> amount_usdt, result |-> "raised", outcome |-> "none",
          submits |-> 0, reloads |-> 0, recovered |-> "none"]
    ELSE
    LET lowered == Lower(exchange_name)
        amount  == IF Le(amount_usdt, 0)
                   THEN config.trading.max_trade_amount_usdt
                   ELSE amount_usdt
        result  == IF lowered \notin exchanges THEN "skip_uninit"
                   ELSE IF ~_check_confidence(signal, config.trading) THEN "skip_conf"
                   ELSE IF ~_check_amount_limit(amount, config.trading) THEN "skip_amount"
                   ELSE "pending"
    IN [name |-> exchange_name, exchange |-> lowered, amount |-> amount,
        result |-> result, outcome |-> "none",
        submits |-> IF result = "pending" THEN 1 ELSE 0,
        reloads |-> 0, recovered |-> "none"]

\* Variant of place_order_outcome that reconnects on every ccxt error.
place_order_outcome_reconnect_all(outcome) ==
    CASE outcome = "ok"       -> "placed"
      [] outcome = "network"  -> "reload"
      [] outcome = "exchange" -> "reload"
      [] OTHER                -> "fail_unexp"

\* The except clauses of place_order: what the call does with the outcome of
\* create_market_order.  "reload" means _reconnect_exchange is entered.
place_order_outcome(outcome) ==
    CASE outcome = "ok"       -> "placed"
      [] outcome = "network"  -> "reload"
      [] outcome = "exchange" -> "fail_exch"
      [] OTHER                -> "fail_unexp"

OrderOutcomes == {"ok", "network", "exchange", "unexpected"}

\* Variant of _reconnect_exchange_entry that starts no reload while another
\* call is already reloading the same connector.
_reconnect_exchange_entry_guarded(exchange_name) ==
    /\ exchange_name \in exchanges
    /\ ~\E t \in 1..Len(tasks) :
          /\ tasks[t].pc = "reload"
          /\ tasks[t].calls[Len(tasks[t].calls)].exchange = exchange_name

\* _reconnect_exchange up to its await: TRUE when load_markets is called.
_reconnect_exchange_entry(exchange_name) == exchange_name \in exchanges

\* Variant of _reconnect_exchange_exit that drops the connector when the
\* reload failed.
_reconnect_exchange_exit_drop(exchange_name, ok) ==
    IF ok THEN exchanges ELSE exchanges \ {exchange_name}

\* The connector set after _reconnect_exchange returned: unchanged, the
\* boolean result is discarded by place_order.
_reconnect_exchange_exit(exchange_name, ok) == exchanges

\* Variant of market_order that sends the side token as the signal has it.
market_order_keep_case(t, task) ==
    LET call == task.calls[Len(task.calls)]
    IN [task |-> t, call |-> Len(task.calls), exchange |-> call.exchange,
        symbol |-> task.signal.symbol, side |-> task.signal.side,
        amount |-> call.amount]

\* The market order place_order sends for the call in progress of a task.
market_order(t, task) ==
    LET call == task.calls[Len(task.calls)]
    IN [task |-> t, call |-> Len(task.calls), exchange |-> call.exchange,
        symbol |-> task.signal.symbol, side |-> Lower(task.signal.side),
        amount |-> call.amount]

\* ---------------------------------------------------------- ListenerScript
\* A unit of work (or a direct caller of place_order):
\*   pc       "spawned" | "analyze" | "submit" | "reload" | "done" | "crashed"
\*            | "cancelled"
\*   names    the exchange names place_order is called with, idx the current one
\*   amount   the amount_usdt argument passed to place_order
\*   calls    one record per place_order call made, the last may be in progress
\*   errors   what the except clauses of the unit logged
\*   interrupted  the await at which the task was cancelled, else "none"
NewTask(ev) ==
    [ev |-> ev, pc |-> "spawned", signal |-> NoSignal, names |-> << >>,
     amount |-> 0, idx |-> 1, calls |-> << >>, analyses |-> 0, errors |-> << >>,
     interrupted |-> "none"]

\* Variant of after_call that calls place_order once more for the same entry
\* after the first failed order of the unit.
after_call_retry_once(task, result) ==
    [task EXCEPT !.idx = IF result \in {"fail_net", "fail_exch"}
                            /\ Len(task.calls) = task.idx
                         THEN @ ELSE @ + 1,
                 !.errors = IF result = "raised" THEN Append(@, "order") ELSE @]

\* Variant of after_call that leaves the loop after the first placed order.
after_call_first_wins(task, result) ==
    [task EXCEPT !.idx = IF result = "placed" THEN Len(task.names) + 1 ELSE @ + 1,
                 !.errors = IF result = "raised" THEN Append(@, "order") ELSE @]

\* Variant of after_call that leaves the loop when a call did not place an
\* order.
after_call_break(task, result) ==
    [task EXCEPT !.idx = IF result # "placed" THEN Len(task.names) + 1 ELSE @ + 1,
                 !.errors = IF result = "raised" THEN Append(@, "order") ELSE @]

\* The body of the for loop after place_order returned or raised: an
\* exception is logged by the inner except, and the loop goes on.
after_call(task, result) ==
    [task EXCEPT !.idx = @ + 1,
                 !.errors = IF result = "raised" THEN Append(@, "order") ELSE @]

\* The for loop over enabled_exchanges, run until a call awaits the exchange
\* or the list is exhausted.
RECURSIVE place_orders(_)
place_orders(task) ==
    IF task.idx > Len(task.names)
    THEN [task EXCEPT !.pc = "done"]
    ELSE LET call == place_order_entry(task.signal, task.names[task.idx], task.amount)
             called == [task EXCEPT !.calls = Append(@, call)]
         IN IF call.result = "pending"
            THEN [called EXCEPT !.pc = "submit"]
            ELSE place_orders(after_call(called, call.result))

\* Variant of unit_catch that lets the exception leave the task.
unit_catch_reraise(task) == [task EXCEPT !.pc = "crashed"]

\* The outer except of _process_message_async: log and end the unit.
unit_catch(task) ==
    [task EXCEPT !.pc = "done", !.errors = Append(@, "unit")]

\* Variant of process_signal without the read_only_mode check.
process_signal_no_read_only(task, signal) ==
    IF signal = NoSignal
    THEN [task EXCEPT !.pc = "done"]
    ELSE IF ~config.trading.enabled_exchanges.iterable
    THEN unit_catch([task EXCEPT !.signal = signal])
    ELSE place_orders([task EXCEPT !.signal = signal, !.idx = 1,
                                   !.names = config.trading.enabled_exchanges.items])

\* Variant of process_signal without the "signal is None" check.
process_signal_no_none_check(task, signal) ==
    IF config.read_only_mode
    THEN [task EXCEPT !.pc = "done", !.signal = signal]
    ELSE IF ~config.trading.enabled_exchanges.iterable
    THEN unit_catch([task EXCEPT !.signal = signal])
    ELSE place_orders([task EXCEPT !.signal = signal, !.idx = 1,
                                   !.names = config.trading.enabled_exchanges.items])

\* _process_message_async from the return of analyze to the next await.
process_signal(task, signal) ==
    IF signal = NoSignal
    THEN [task EXCEPT !.pc = "done"]
    ELSE IF config.read_only_mode
    THEN [task EXCEPT !.pc = "done", !.signal = signal]
    ELSE IF ~config.trading.enabled_exchanges.iterable
    THEN unit_catch([task EXCEPT !.signal = signal])
    ELSE place_orders([task EXCEPT !.signal = signal, !.idx = 1,
                                   !.names = config.trading.enabled_exchanges.items])

\* Bookkeeping shared by the actions: task t becomes task.
Commit(t, task) ==
    /\ tasks' = [tasks EXCEPT ![t] = task]
    /\ orders' = IF task.pc = "submit"
                 THEN orders \cup {market_order(t, task)}
                 ELSE orders
    /\ escaped' = IF task.pc = "crashed" THEN escaped \cup {t} ELSE escaped

\* handle_console -> _on_message: gate the event, spawn the unit of work.
OnMessage(channel) ==
    /\ Len(events) < MaxEvents
    /\ LET message == [channel |-> channel]
           passed == filter_message(config.target_channels, message) # << >>
       IN /\ events' = Append(events, [channel |-> channel, passed |-> passed])
          /\ tasks' = IF passed THEN Append(tasks, NewTask(Len(events) + 1))
                      ELSE tasks
    /\ UNCHANGED <<config, exchanges, orders, escaped, arg, ret, phase>>

\* The spawned task starts and awaits the analysis boundary.
StartUnit(t) ==
    /\ tasks[t].pc = "spawned"
    /\ Commit(t, [tasks[t] EXCEPT !.pc = "analyze", !.analyses = @ + 1])
    /\ UNCHANGED <<config, exchanges, events, arg, ret, phase>>

\* The analysis boundary answers; the unit runs to its next await.
AnalyzeReturn(t, response) ==
    /\ tasks[t].pc = "analyze"
    /\ Commit(t, process_signal(tasks[t], analyze(response)))
    /\ UNCHANGED <<config, exchanges, events, arg, ret, phase>>

\* create_market_order returns or raises.
OrderReturn(t, outcome) ==
    /\ tasks[t].pc = "submit"
    /\ LET n == Len(tasks[t].calls)
           call == tasks[t].calls[n]
           next == place_order_outcome(outcome)
       IN IF next = "reload" /\ _reconnect_exchange_entry(call.exchange)
          THEN Commit(t, [tasks[t] EXCEPT
                    !.pc = "reload",
                    !.calls[n] = [call EXCEPT !.outcome = outcome, !.reloads = @ + 1]])
          ELSE LET result == IF next = "reload" THEN "fail_net" ELSE next
               IN Commit(t, place_orders(after_call(
                    [tasks[t] EXCEPT
                       !.calls[n] = [call EXCEPT !.outcome = outcome,
                                                 !.result = result]],
                    result)))
    /\ UNCHANGED <<config, exchanges, events, arg, ret, phase>>

\* load_markets(reload=True) returns or raises; place_order returns None.
ReloadReturn(t, ok) ==
    /\ tasks[t].pc = "reload"
    /\ LET n == Len(tasks[t].calls)
           call == tasks[t].calls[n]
       IN /\ exchanges' = _reconnect_exchange_exit(call.exchange, ok)
          /\ Commit(t, place_orders(after_call(
                [tasks[t] EXCEPT
                   !.calls[n] = [call EXCEPT
                        !.result = "fail_net",
                        !.recovered = IF ok THEN "ok" ELSE "failed"]],
                "fail_net")))
    /\ UNCHANGED <<config, events, arg, ret, phase>>

Init ==
    /\ config \in [read_only_mode : BOOLEAN,
                   target_channels : TargetChoices,
                   trading : [confidence_threshold : {DefaultThreshold},
                              max_trade_amount_usdt : {DefaultMaxAmount},
                              enabled_exchanges : EnabledChoices]]
    /\ exchanges \in ExchangeSetChoices
    /\ events = << >>
    /\ tasks = << >>
    /\ orders = {}
    /\ escaped = {}
    /\ arg = << >>
    /\ ret = << >>
    /\ phase = "listening"

Next ==
    \/ \E channel \in Channels : OnMessage(channel)
    \/ \E t \in 1..Len(tasks) : StartUnit(t)
    \/ \E t \in 1..Len(tasks), response \in Responses : AnalyzeReturn(t, response)
    \/ \E t \in 1..Len(tasks), outcome \in OrderOutcomes : OrderReturn(t, outcome)
    \/ \E t \in 1..Len(tasks), ok \in BOOLEAN : ReloadReturn(t, ok)

Spec == Init /\ [][Next]_vars

\* ------------------------------------------------- place_order called directly
\* Arguments of direct place_order calls: amounts below, at and above
\* max_trade_amount_usdt, signals above and below the threshold.
DirectAmounts == {-5, 0, 50, DefaultMaxAmount, DefaultMaxAmount + 50}

DirectSignals ==
    { [symbol |-> "ETH/USDT", side |-> "SELL",
       confidence |-> 100, summary |-> "s"],
      [symbol |-> "BTC/USDT", side |-> "BUY",
       confidence |-> DefaultThreshold - 1, summary |-> "s"] }

DirectNames == {"binance", "Binance", "kraken", NonStringName}

\* A caller awaits place_order(signal, exchange_name, amount_usdt).
DirectCall(signal, exchange_name, amount_usdt) ==
    /\ Len(tasks) < MaxDirectCalls
    /\ LET t == Len(tasks) + 1
           task == place_orders([NewTask(0) EXCEPT
                       !.signal = signal, !.names = <<exchange_name>>,
                       !.amount = amount_usdt, !.idx = 1])
       IN /\ tasks' = Append(tasks, task)
          /\ orders' = IF task.pc = "submit"
                       THEN orders \cup {market_order(t, task)}
                       ELSE orders
    /\ UNCHANGED <<config, exchanges, events, escaped, arg, ret, phase>>

InitDirect ==
    /\ config \in [read_only_mode : {FALSE},
                   target_channels : {<< >>},
                   trading : [confidence_threshold : {DefaultThreshold},
                              max_trade_amount_usdt : {DefaultMaxAmount},
                              enabled_exchanges : {[iterable |-> TRUE, items |-> << >>]}]]
    /\ exchanges \in ExchangeSetChoices
    /\ events = << >>
    /\ tasks = << >>
    /\ orders = {}
    /\ escaped = {}
    /\ arg = << >>
    /\ ret = << >>
    /\ phase = "listening"

NextDirect ==
    \/ \E signal \in DirectSignals, exchange_name \in DirectNames,
          amount_usdt \in DirectAmounts :
              DirectCall(signal, exchange_name, amount_usdt)
    \/ \E t \in 1..Len(tasks), outcome \in OrderOutcomes : OrderReturn(t, outcome)
    \/ \E t \in 1..Len(tasks), ok \in BOOLEAN : ReloadReturn(t, ok)

SpecDirect == InitDirect /\ [][NextDirect]_vars

\* ------------------------------------------------ function-level specifications
\* The pipeline state is idle while a single function is applied to arg.
IdleConfig ==
    [read_only_mode |-> TRUE, target_channels |-> << >>,
     trading |-> [confidence_threshold |-> DefaultThreshold,
                  max_trade_amount_usdt |-> DefaultMaxAmount,
                  enabled_exchanges |-> [iterable |-> TRUE, items |-> << >>]]]

IdlePipeline ==
    /\ config = IdleConfig
    /\ exchanges = {}
    /\ events = << >>
    /\ tasks = << >>
    /\ orders = {}
    /\ escaped = {}
    /\ ret = << >>
    /\ phase = "listening"

\* All sequences over S of length at most n.
SeqsUpTo(S, n) == UNION {[1..k -> S] : k \in 0..n}

\* ---- ChannelFilter applied to a target list and a message
\* Longest target-channel list tried.
MaxTargets == 2

FilterChannelNames ==
    {"crypto-signals", "Crypto-Signals", "trading-alerts", "general"}

FilterMessages ==
    [author : {"TraderJoe", "Alice"}, content : {"BTC long"},
     timestamp : {"2024-01-15T10:30:00.000Z"}, channel : FilterChannelNames]

InitFilter ==
    /\ arg \in [target_channels : SeqsUpTo(FilterChannelNames, MaxTargets),
                message : FilterMessages]
    /\ IdlePipeline

ApplyFilter ==
    /\ ret = << >>
    /\ ret' = << [should |-> should_process(arg.target_channels, arg.message.channel),
                  filtered |-> filter_message(arg.target_channels, arg.message)] >>
    /\ UNCHANGED <<config, exchanges, events, tasks, orders, escaped, arg, phase>>

SpecFilter == InitFilter /\ [][ApplyFilter]_vars

\* ------------------------------------------------------ shutdown of the script
\* Variant of cancel in which the except Exception clauses also catch the
\* cancellation: place_order reports the call as failed and the loop over
\* the exchanges goes on.
cancel_caught(task) ==
    IF task.pc \in {"done", "crashed", "cancelled"}
    THEN task
    ELSE IF task.pc \in {"submit", "reload"}
    THEN LET n == Len(task.calls)
         IN place_orders(after_call(
                [task EXCEPT !.interrupted = task.pc,
                             !.calls[n].result = "fail_unexp"],
                "fail_unexp"))
    ELSE [task EXCEPT !.pc = "done", !.interrupted = task.pc]

\* A task still pending when the event loop is closed is cancelled:
\* CancelledError is raised at its await, passes every except Exception
\* clause and ends the task; nothing is recorded.
cancel(task) ==
    IF task.pc \in {"done", "crashed", "cancelled"}
    THEN task
    ELSE [task EXCEPT !.pc = "cancelled", !.interrupted = task.pc]

\* The SIGINT/SIGTERM handler or _on_page_close clears self.running.
Interrupt ==
    /\ phase = "listening"
    /\ phase' = "stopping"
    /\ UNCHANGED <<config, exchanges, events, tasks, orders, escaped, arg, ret>>

\* The listening loop sees running cleared and shutdown() removes the
\* console listener, then awaits the browser and Playwright.
Shutdown ==
    /\ phase = "stopping"
    /\ phase' = "shutdown"
    /\ UNCHANGED <<config, exchanges, events, tasks, orders, escaped, arg, ret>>

\* start returns and asyncio.run closes the loop, cancelling what is pending.
Close ==
    /\ phase = "shutdown"
    /\ phase' = "closed"
    /\ tasks' = [t \in 1..Len(tasks) |-> cancel(tasks[t])]
    /\ orders' = orders \cup
          {market_order(t, cancel(tasks[t])) :
              t \in {u \in 1..Len(tasks) :
                        tasks[u].pc # "submit" /\ cancel(tasks[u]).pc = "submit"}}
    /\ UNCHANGED <<config, exchanges, events, escaped, arg, ret>>

InitShutdown ==
    /\ config \in [read_only_mode : {FALSE},
                   target_channels : {<< >>, <<"crypto-signals", "trading-alerts">>},
                   trading : [confidence_threshold : {DefaultThreshold},
                              max_trade_amount_usdt : {DefaultMaxAmount},
                              enabled_exchanges :
                                  {[iterable |-> FALSE, items |-> << >>],
                                   [iterable |-> TRUE, items |-> <<"binance">>],
                                   [iterable |-> TRUE, items |-> <<"binance", "bybit">>],
                                   [iterable |-> TRUE, items |-> <<NonStringName, "bybit">>]}]]
    /\ exchanges = {"binance", "bybit"}
    /\ events = << >>
    /\ tasks = << >>
    /\ orders = {}
    /\ escaped = {}
    /\ arg = << >>
    /\ ret = << >>
    /\ phase = "listening"

NextShutdown ==
    \/ phase \in {"listening", "stopping"} /\ \E channel \in Channels : OnMessage(channel)
    \/ phase # "closed" /\ \E t \in 1..Len(tasks) : StartUnit(t)
    \/ phase # "closed" /\ \E t \in 1..Len(tasks), response \in Responses :
                              AnalyzeReturn(t, response)
    \/ phase # "closed" /\ \E t \in 1..Len(tasks), outcome \in OrderOutcomes :
                              OrderReturn(t, outcome)
    \/ phase # "closed" /\ \E t \in 1..Len(tasks), ok \in BOOLEAN : ReloadReturn(t, ok)
    \/ Interrupt
    \/ Shutdown
    \/ Close

SpecShutdown == InitShutdown /\ [][NextShutdown]_vars

\* ---- ExchangeClient._init_exchanges applied to a list of ExchangeConfig
\* Longest exchanges list tried.
MaxExchangeConfigs == 2

ExchangeEntries ==
    [name : {"binance", "bybit", "Binance", "kraken"}, enabled : BOOLEAN]

InitInitExchanges ==
    /\ arg \in [configs : SeqsUpTo(ExchangeEntries, MaxExchangeConfigs),
                fails : SUBSET (1..MaxExchangeConfigs)]
    /\ IdlePipeline

ApplyInitExchanges ==
    /\ ret = << >>
    /\ ret' = << _init_exchanges(arg.configs, arg.fails) >>
    /\ UNCHANGED <<config, exchanges, events, tasks, orders, escaped, arg, phase>>

SpecInitExchanges == InitInitExchanges /\ [][ApplyInitExchanges]_vars

\* ---- DiscordMessage on the wire and ConsoleInterceptor
\* Text is spelled out as a sequence of characters here, because JSON string
\* escaping acts on each character. QUOTE, BACKSLASH and LF stand for the
\* characters that must be escaped, CJK for a character outside ASCII.
TextChars == {"a", "n", "QUOTE", "BACKSLASH", "LF", "CJK"}

MessageFields == {"author", "content", "timestamp", "channel"}

DISCORD_MESSAGE == << "DISCORD_MESSAGE" >>

\* The body of a JSON string literal for the text s (non-ASCII kept as is).
RECURSIVE JsonEscape(_)
JsonEscape(s) ==
    IF s = << >>
    THEN << >>
    ELSE (CASE Head(s) = "QUOTE" -> << "BACKSLASH", "QUOTE" >>
            [] Head(s) = "BACKSLASH" -> << "BACKSLASH", "BACKSLASH" >>
            [] Head(s) = "LF" -> << "BACKSLASH", "n" >>
            [] OTHER -> << Head(s) >>) \o JsonEscape(Tail(s))

\* The text a JSON string literal body stands for.
RECURSIVE JsonUnescape(_)
JsonUnescape(lit) ==
    IF lit = << >>
    THEN << >>
    ELSE IF Head(lit) = "BACKSLASH" /\ Len(lit) >= 2
    THEN << IF lit[2] = "n" THEN "LF" ELSE lit[2] >>
             \o JsonUnescape(SubSeq(lit, 3, Len(lit)))
    ELSE << Head(lit) >> \o JsonUnescape(Tail(lit))

JsonString(s) == [t |-> "string", lit |-> JsonEscape(s)]

\* DiscordMessage.to_json: an object with the type tag and the four fields.
to_json(message) ==
    [kind |-> "object",
     members |-> [k \in {"type"} \cup MessageFields |->
                     IF k = "type" THEN JsonString(DISCORD_MESSAGE)
                     ELSE JsonString(message[k])]]

\* DiscordMessage.from_json: << >> for None, else the one message parsed.
from_json(json_str) ==
    IF json_str.kind # "object"
    THEN << >>
    ELSE LET data == json_str.members
         IN IF "type" \notin DOMAIN data
            THEN << >>
            ELSE IF \/ data["type"].t # "string"
                    \/ JsonUnescape(data["type"].lit) # DISCORD_MESSAGE
            THEN << >>
            ELSE IF \E f \in MessageFields :
                       f \notin DOMAIN data \/ data[f].t # "string"
            THEN << >>
            ELSE << [author |-> JsonUnescape(data["author"].lit),
                     content |-> JsonUnescape(data["content"].lit),
                     timestamp |-> JsonUnescape(data["timestamp"].lit),
                     channel |-> JsonUnescape(data["channel"].lit)] >>

\* ConsoleInterceptor.parse_message
parse_message(json_str) == from_json(json_str)

\* Variant of serialize_message that writes the four fields without the tag.
serialize_message_untagged(message) ==
    [kind |-> "object",
     members |-> [k \in MessageFields |-> JsonString(message[k])]]

\* ConsoleInterceptor.serialize_message
serialize_message(message) == to_json(message)

\* Variant of handle_console that forwards whatever parse_message returned.
handle_console_no_check(msg) ==
    LET message == parse_message(msg.text)
    IN [printed |-> message # << >>, on_message |-> << message >>]

\* ConsoleInterceptor.handle_console: whether a line was printed and the
\* arguments of the on_message calls made.
handle_console(msg) ==
    LET message == parse_message(msg.text)
    IN IF message # << >>
       THEN [printed |-> TRUE, on_message |-> << message[1] >>]
       ELSE [printed |-> FALSE, on_message |-> << >>]

\* Console texts: what is not a JSON object, and objects over the keys of
\* interest with string and number values.
NonObjectKinds ==
    {"none", "empty", "unparsable", "null", "array", "string", "number", "true"}

PayloadKeys == {"type"} \cup MessageFields \cup {"extra_field"}

PayloadValues ==
    {[t |-> "string", lit |-> DISCORD_MESSAGE],
     [t |-> "string", lit |-> << "a" >>],
     [t |-> "number", lit |-> << "123" >>]}

Payloads ==
    {[kind |-> k, members |-> << >>] : k \in NonObjectKinds}
        \cup {[kind |-> "object", members |-> m] :
                 m \in UNION {[K -> PayloadValues] : K \in SUBSET PayloadKeys}}

InitConsole == arg \in [text : Payloads] /\ IdlePipeline

ApplyConsole ==
    /\ ret = << >>
    /\ ret' = << handle_console(arg) >>
    /\ UNCHANGED <<config, exchanges, events, tasks, orders, escaped, arg, phase>>

SpecConsole == InitConsole /\ [][ApplyConsole]_vars

\* ---- serialize_message followed by parse_message
\* Longest author and content tried.
MaxTextLen == 2

WireMessages ==
    [author : SeqsUpTo(TextChars, MaxTextLen),
     content : SeqsUpTo(TextChars, MaxTextLen),
     timestamp : {<< "2024-01-15T10:30:00.000Z" >>},
     channel : {<< "crypto-signals" >>, << "CJK", "CJK" >>}]

InitRoundTrip == arg \in [message : WireMessages] /\ IdlePipeline

ApplyRoundTrip ==
    /\ ret = << >>
    /\ ret' = << [text |-> serialize_message(arg.message),
                  parsed |-> parse_message(serialize_message(arg.message))] >>
    /\ UNCHANGED <<config, exchanges, events, tasks, orders, escaped, arg, phase>>

SpecRoundTrip == InitRoundTrip /\ [][ApplyRoundTrip]_vars

\* ---- TradeSignal.validate applied to a candidate
\* Confidence values by Python type: integers around both ends of [0,100],
\* the booleans, floats (in tenths), a string and null.
TypedConfidences ==
    [conf_type : {"int"}, confidence : {-1, 0, 50, 100, 101, 200}]
        \cup [conf_type : {"bool"}, confidence : {0, 1}]
        \cup [conf_type : {"float"}, confidence : {-5, 699, 705, 1009, 1010}]
        \cup [conf_type : {"str", "null"}, confidence : {50}]

CandidateSymbols == {"BTC/USDT", "", "   "}
CandidateSides == {"BUY", "SELL", "HOLD", "buy", ""}
CandidateSummaries == {"s", "", "   "}

Candidates ==
    {[symbol |-> y, side |-> d, conf_type |-> c.conf_type,
      confidence |-> c.confidence, summary |-> m] :
        y \in CandidateSymbols, d \in CandidateSides,
        c \in TypedConfidences, m \in CandidateSummaries}

InitValidate == arg \in [signal : Candidates] /\ IdlePipeline

ApplyValidate ==
    /\ ret = << >>
    /\ ret' = << validate(arg.signal) >>
    /\ UNCHANGED <<config, exchanges, events, tasks, orders, escaped, arg, phase>>

SpecValidate == InitValidate /\ [][ApplyValidate]_vars

\* ---- TradingAgent.analyze applied to an answer of the analysis boundary
\* A has_signal of FALSE also stands for an object without the key, and the
\* default of each other key is among the values tried.
AnalyzeResponses ==
    [kind : {"api_error", "client_error", "empty", "unparsable", "non_object"},
     has_signal : {FALSE}, symbol : {""}, side : {""}, conf_type : {"int"},
     confidence : {0}, summary : {""}]
    \cup
    {JsonTyped(h, y, d, c.conf_type, c.confidence, m) :
        h \in BOOLEAN, y \in CandidateSymbols, d \in CandidateSides,
        c \in TypedConfidences
                 \cup [conf_type : {"float_inf", "float_nan"}, confidence : {0}],
        m \in CandidateSummaries}

InitAnalyze == arg \in [response : AnalyzeResponses] /\ IdlePipeline

ApplyAnalyze ==
    /\ ret = << >>
    /\ ret' = << analyze_outcome(arg.response) >>
    /\ UNCHANGED <<config, exchanges, events, tasks, orders, escaped, arg, phase>>

SpecAnalyze == InitAnalyze /\ [][ApplyAnalyze]_vars

\* ---- TradingAgent._parse_response applied to the text of a completion
\* A completion is a sequence of tokens: a whitespace character, the three
\* backticks of a code fence, the tag json, or the text of a JSON object.
\* Longest completion tried.
MaxTokens == 6

Ws == " "

\* The three backticks that open or close a code block.
Fence == "fence"

JsonTag == "json"

\* The JSON objects a completion carries and what json.loads makes of each.
PayloadOf(token) ==
    CASE token = "{signal}"    -> Json(TRUE, "BTC/USDT", "BUY", DefaultThreshold, "s")
      [] token = "{no_signal}" -> Json(FALSE, "", "", 0, "s")

PayloadTokens == {"{signal}", "{no_signal}"}

TextTokens == {Ws, Fence, JsonTag} \cup PayloadTokens

\* str.strip(): the text without its leading and trailing whitespace.
StripText(text) ==
    LET inked == {i \in 1..Len(text) : text[i] # Ws}
    IN IF inked = {}
       THEN << >>
       ELSE LET first == CHOOSE i \in inked : \A j \in inked : i <= j
                last  == CHOOSE i \in inked : \A j \in inked : j <= i
            IN SubSeq(text, first, last)

\* Variant of _clean_response that removes an opening fence only together
\* with its json tag.
_clean_response_tag_only(response) ==
    LET stripped == StripText(response)
        untagged == IF Len(stripped) >= 2 /\ stripped[1] = Fence
                       /\ stripped[2] = JsonTag
                    THEN SubSeq(stripped, 3, Len(stripped))
                    ELSE stripped
        closed   == IF Len(untagged) >= 1 /\ untagged[Len(untagged)] = Fence
                    THEN SubSeq(untagged, 1, Len(untagged) - 1)
                    ELSE untagged
    IN StripText(closed)

\* The cleaned_response of _parse_response: strip, drop a leading ```json,
\* drop a leading ```, drop a trailing ```, strip.
_clean_response(response) ==
    LET stripped == StripText(response)
        untagged == IF Len(stripped) >= 2 /\ stripped[1] = Fence
                       /\ stripped[2] = JsonTag
                    THEN SubSeq(stripped, 3, Len(stripped))
                    ELSE stripped
        opened   == IF Len(untagged) >= 1 /\ untagged[1] = Fence
                    THEN Tail(untagged)
                    ELSE untagged
        closed   == IF Len(opened) >= 1 /\ opened[Len(opened)] = Fence
                    THEN SubSeq(opened, 1, Len(opened) - 1)
                    ELSE opened
    IN StripText(closed)

\* json.loads of a text: whitespace around the one JSON value is allowed,
\* any other text raises JSONDecodeError.
json_loads(text) ==
    LET body == StripText(text)
    IN IF Len(body) = 1 /\ body[1] \in PayloadTokens
       THEN PayloadOf(body[1])
       ELSE [kind |-> "unparsable", has_signal |-> FALSE, symbol |-> "",
             side |-> "", conf_type |-> "int", confidence |-> 0, summary |-> ""]

\* _parse_response of the text of a completion.
_parse_response_text(response) ==
    _parse_response(json_loads(_clean_response(response)))

InitParseText == arg \in [text : SeqsUpTo(TextTokens, MaxTokens)] /\ IdlePipeline

ApplyParseText ==
    /\ ret = << >>
    /\ ret' = << [cleaned |-> _clean_response(arg.text),
                  signal |-> _parse_response_text(arg.text)] >>
    /\ UNCHANGED <<config, exchanges, events, tasks, orders, escaped, arg, phase>>

SpecParseText == InitParseText /\ [][ApplyParseText]_vars

\* ------------------------------------------------------------ ConfigManager
\* config_manager.VALID_EXCHANGE_NAMES
VALID_EXCHANGE_NAMES == {"binance", "bybit", "mexc"}

\* Values of a loaded YAML document carry their Python type t.
\*   text   [t, s]      t: "absent" | "null" | "str" | "int" | "bool", s the text
\*   flag   [t, b]      t: "absent" | "null" | "bool" | "str", b the truth value
\*   number [t, n]      t: "absent" | "null" | "int" | "float" | "nan" | "inf"
\*                         | "bool" | "str", n the value (a float in tenths)
\*   list   [t, items]  t: "absent" | "null" | "list" | "str" | "int"
Absent == "absent"
Text(t, s) == [t |-> t, s |-> s]
Flag(t, b) == [t |-> t, b |-> b]
Number(t, n) == [t |-> t, n |-> n]
List(t, items) == [t |-> t, items |-> items]

\* str(raw.get(key, default)) of a text value.
StrOf(x, default) ==
    IF x.t = Absent THEN default
    ELSE IF x.t = "null" THEN "None"
    ELSE x.s

\* bool(raw.get(key, False)) of a flag value.
BoolOf(x) == x.t \notin {Absent, "null"} /\ x.b

ParseError(field, index) == [field |-> field, index |-> index]

\* The for loop of _parse_config over exchanges_raw from entry i on: the
\* ExchangeConfig list built and the errors appended.
RECURSIVE _parse_exchanges(_, _)
_parse_exchanges(exchanges_raw, i) ==
    IF i > Len(exchanges_raw)
    THEN [exchanges |-> << >>, errors |-> << >>]
    ELSE LET ex_raw == exchanges_raw[i]
             rest == _parse_exchanges(exchanges_raw, i + 1)
         IN IF ex_raw.t # "dict"
            THEN [rest EXCEPT !.errors = << ParseError("exchanges[]", i) >> \o @]
            ELSE [rest EXCEPT !.exchanges =
                    << [name |-> StrOf(ex_raw.name, ""),
                        api_key |-> StrOf(ex_raw.api_key, ""),
                        api_secret |-> StrOf(ex_raw.api_secret, ""),
                        enabled |-> BoolOf(ex_raw.enabled)] >> \o @]

\* trading_raw.get("enabled_exchanges", []) or []: a list, or a truthy
\* scalar kept as it is (which the order loop cannot iterate).
EnabledExchangesOf(x) ==
    IF x.t = "list" THEN [iterable |-> TRUE, items |-> x.items]
    ELSE IF x.t \in {Absent, "null"} THEN [iterable |-> TRUE, items |-> << >>]
    ELSE [iterable |-> FALSE, items |-> << >>]

\* Variant of _parse_read_only_mode whose default is false.
_parse_read_only_mode_default_false(raw) ==
    IF raw.read_only_mode.t = Absent
    THEN Flag("bool", FALSE) ELSE raw.read_only_mode

\* raw.get("read_only_mode", True)
_parse_read_only_mode(raw) ==
    IF raw.read_only_mode.t = Absent
    THEN Flag("bool", TRUE) ELSE raw.read_only_mode

\* ConfigManager._parse_config: << >> for None or the one AppConfig, and the
\* parse errors.
_parse_config(raw) ==
    LET e1 == IF raw.cdp_url.t \notin {Absent, "str"}
              THEN << ParseError("cdp_url", 0) >> ELSE << >>
        cdp_url == IF raw.cdp_url.t = "str" THEN raw.cdp_url.s
                   ELSE "http://localhost:9222"
        read_only_mode == _parse_read_only_mode(raw)
        target_channels == IF raw.target_channels.t = "list"
                           THEN raw.target_channels.items ELSE << >>
        parsed == _parse_exchanges(
                      IF raw.exchanges.t = "list" THEN raw.exchanges.items ELSE << >>, 1)
        e2 == e1 \o parsed.errors
        trading_raw == IF raw.trading.t = "dict" THEN raw.trading
                       ELSE [t |-> "dict",
                             confidence_threshold |-> Number(Absent, 0),
                             max_trade_amount_usdt |-> Number(Absent, 0),
                             enabled_exchanges |-> List(Absent, << >>)]
        trading ==
            [confidence_threshold |->
                 IF trading_raw.confidence_threshold.t = Absent
                 THEN Number("int", DefaultThreshold)
                 ELSE trading_raw.confidence_threshold,
             max_trade_amount_usdt |->
                 IF trading_raw.max_trade_amount_usdt.t = Absent
                 THEN Number("float", DefaultMaxAmount * 10)
                 ELSE trading_raw.max_trade_amount_usdt,
             enabled_exchanges |-> EnabledExchangesOf(trading_raw.enabled_exchanges)]
        llm_model == IF raw.llm.t = "dict" /\ raw.llm.model.t = "str"
                     THEN raw.llm.model.s ELSE "gpt-4o-mini"
        llm_api_key == IF raw.llm.t = "dict" THEN StrOf(raw.llm.api_key, "") ELSE ""
    IN IF raw.target_channels.t \notin {Absent, "null", "list"}
       THEN [config |-> << >>, errors |-> e1 \o << ParseError("target_channels", 0) >>]
       ELSE IF raw.exchanges.t \notin {Absent, "null", "list"}
       THEN [config |-> << >>, errors |-> e1 \o << ParseError("exchanges", 0) >>]
       ELSE IF raw.trading.t \notin {Absent, "null", "dict"}
       THEN [config |-> << >>, errors |-> e2 \o << ParseError("trading", 0) >>]
       ELSE IF raw.llm.t \notin {Absent, "null", "dict"}
       THEN [config |-> << >>, errors |-> e2 \o << ParseError("llm", 0) >>]
       ELSE IF e2 # << >>
       THEN [config |-> << >>, errors |-> e2]
       ELSE [config |-> << [cdp_url |-> cdp_url,
                            target_channels |-> List("list", target_channels),
                            exchanges |-> parsed.exchanges,
                            trading |-> trading,
                            read_only_mode |-> read_only_mode,
                            llm_model |-> llm_model,
                            llm_api_key |-> llm_api_key] >>,
             errors |-> << >>]

\* The for loop of validate over config.exchanges from entry i on.
RECURSIVE validate_exchanges(_, _)
validate_exchanges(exchanges_list, i) ==
    IF i > Len(exchanges_list)
    THEN << >>
    ELSE (IF exchanges_list[i].name \notin VALID_EXCHANGE_NAMES
          THEN << ParseError("exchanges[].name", i) >> ELSE << >>)
         \o (IF exchanges_list[i].enabled /\ exchanges_list[i].api_key = ""
             THEN << ParseError("exchanges[].api_key", i) >> ELSE << >>)
         \o validate_exchanges(exchanges_list, i + 1)

\* ConfigManager.validate: the list of violations of an AppConfig.
validate_config(c) ==
    (IF c.target_channels.t = "null"
     THEN << ParseError("target_channels", 0) >> ELSE << >>)
    \o validate_exchanges(c.exchanges, 1)
    \o (IF c.trading.confidence_threshold.t # "int"
        THEN << ParseError("trading.confidence_threshold:type", 0) >>
        ELSE IF \/ c.trading.confidence_threshold.n < 0
                \/ c.trading.confidence_threshold.n > 100
        THEN << ParseError("trading.confidence_threshold:range", 0) >>
        ELSE << >>)
    \o (IF c.trading.max_trade_amount_usdt.t \notin {"int", "float", "nan", "inf"}
        THEN << ParseError("trading.max_trade_amount_usdt:type", 0) >>
        ELSE IF /\ c.trading.max_trade_amount_usdt.t \in {"int", "float"}
                /\ c.trading.max_trade_amount_usdt.n <= 0
        THEN << ParseError("trading.max_trade_amount_usdt:range", 0) >>
        ELSE << >>)
    \o (IF c.read_only_mode.t # "bool"
        THEN << ParseError("read_only_mode", 0) >> ELSE << >>)
    \o (IF c.llm_api_key = ""
        THEN << ParseError("llm.api_key", 0) >> ELSE << >>)

\* A YAML document as read by load: kind says what reading the file gave
\* ("missing": no file, "yaml_error", "os_error", "empty": None, "not_dict",
\* "dict"), the other fields are the keys of the top-level dictionary.
Document(kind, cdp_url, read_only_mode, target_channels, exchanges_raw, trading_raw, llm_raw) ==
    [kind |-> kind, cdp_url |-> cdp_url, read_only_mode |-> read_only_mode,
     target_channels |-> target_channels, exchanges |-> exchanges_raw,
     trading |-> trading_raw, llm |-> llm_raw]

ExchangeRaw(name, api_key, enabled) ==
    [t |-> "dict", name |-> name, api_key |-> api_key,
     api_secret |-> Text("str", "s"), enabled |-> enabled]

NotADict ==
    [t |-> "int", name |-> Text(Absent, ""), api_key |-> Text(Absent, ""),
     api_secret |-> Text(Absent, ""), enabled |-> Flag(Absent, FALSE)]

TradingRaw(t, confidence_threshold, max_trade_amount_usdt, enabled_exchanges) ==
    [t |-> t, confidence_threshold |-> confidence_threshold,
     max_trade_amount_usdt |-> max_trade_amount_usdt,
     enabled_exchanges |-> enabled_exchanges]

LlmRaw(t, api_key) ==
    [t |-> t, model |-> Text("str", "gpt-4o-mini"), api_key |-> api_key]

\* The file generate_default writes.
DefaultDocument ==
    Document("dict", Text("str", "http://localhost:9222"), Flag("bool", TRUE),
             List("list", << "crypto-signals", "trading-alerts" >>),
             List("list", << ExchangeRaw(Text("str", "binance"), Text("str", ""),
                                         Flag("bool", FALSE)),
                             ExchangeRaw(Text("str", "bybit"), Text("str", ""),
                                         Flag("bool", FALSE)),
                             ExchangeRaw(Text("str", "mexc"), Text("str", ""),
                                         Flag("bool", FALSE)) >>),
             TradingRaw("dict", Number("int", DefaultThreshold),
                        Number("float", DefaultMaxAmount * 10),
                        List("list", << "binance" >>)),
             LlmRaw("dict", Text("str", "")))

\* Variant of load that hands back the parsed config along with the
\* validation errors.
load_keep_config(document) ==
    LET read == IF document.kind = "missing" THEN DefaultDocument ELSE document
    IN IF read.kind \in {"yaml_error", "os_error", "empty", "not_dict"}
       THEN [config |-> << >>, errors |-> << ParseError(read.kind, 0) >>]
       ELSE LET parsed == _parse_config(read)
            IN IF parsed.errors # << >>
               THEN [config |-> << >>, errors |-> parsed.errors]
               ELSE [config |-> parsed.config,
                     errors |-> validate_config(parsed.config[1])]

\* ConfigManager.load: << >> for None or the one AppConfig, and the errors.
load(document) ==
    LET read == IF document.kind = "missing" THEN DefaultDocument ELSE document
    IN IF read.kind = "yaml_error"
       THEN [config |-> << >>, errors |-> << ParseError("yaml", 0) >>]
       ELSE IF read.kind = "os_error"
       THEN [config |-> << >>, errors |-> << ParseError("read", 0) >>]
       ELSE IF read.kind = "empty"
       THEN [config |-> << >>, errors |-> << ParseError("empty", 0) >>]
       ELSE IF read.kind = "not_dict"
       THEN [config |-> << >>, errors |-> << ParseError("top", 0) >>]
       ELSE LET parsed == _parse_config(read)
            IN IF parsed.errors # << >>
               THEN [config |-> << >>, errors |-> parsed.errors]
               ELSE LET validation_errors == validate_config(parsed.config[1])
                    IN IF validation_errors # << >>
                       THEN [config |-> << >>, errors |-> validation_errors]
                       ELSE [config |-> parsed.config, errors |-> << >>]

\* ---- ConfigManager.load applied to a document
CdpUrlChoices == {Text("str", "http://localhost:9222"), Text("int", "9222")}

ReadOnlyChoices ==
    {Flag(Absent, FALSE), Flag("bool", TRUE), Flag("bool", FALSE),
     Flag("str", TRUE)}

TargetChannelsChoices ==
    {List("null", << >>), List("list", << "crypto-signals" >>),
     List("str", << >>)}

ExchangesChoices ==
    {List(Absent, << >>), List("str", << >>), List("list", << NotADict >>)}
    \cup {List("list", << ExchangeRaw(Text("str", "binance"), k, Flag("bool", TRUE)) >>) :
             k \in {Text("str", "k"), Text("str", ""), Text("null", ""),
                    Text(Absent, "")}}
    \cup {List("list", << ExchangeRaw(Text("str", "kraken"), Text("str", ""),
                                      Flag("bool", FALSE)) >>)}

ThresholdChoices ==
    {Number(Absent, 0), Number("int", DefaultThreshold), Number("int", 101),
     Number("bool", 1), Number("float", 700)}

MaxAmountChoices ==
    {Number(Absent, 0), Number("int", DefaultMaxAmount), Number("int", 0),
     Number("nan", 0), Number("bool", 1)}

EnabledExchangesChoices == {List("list", << "binance" >>), List("int", << >>)}

TradingChoices ==
    {TradingRaw("str", Number(Absent, 0), Number(Absent, 0), List(Absent, << >>))}
    \cup {TradingRaw("dict", c, m, e) :
             c \in ThresholdChoices, m \in MaxAmountChoices,
             e \in EnabledExchangesChoices}

LlmChoices ==
    {LlmRaw("str", Text(Absent, ""))}
    \cup {LlmRaw("dict", k) : k \in {Text("str", "k"), Text("str", ""), Text("null", "")}}

Documents ==
    {Document(k, Text(Absent, ""), Flag(Absent, FALSE), List(Absent, << >>),
              List(Absent, << >>),
              TradingRaw(Absent, Number(Absent, 0), Number(Absent, 0),
                         List(Absent, << >>)),
              LlmRaw(Absent, Text(Absent, ""))) :
        k \in {"missing", "yaml_error", "os_error", "empty", "not_dict"}}
    \cup {Document("dict", u, r, c, x, tr, l) :
             u \in CdpUrlChoices, r \in ReadOnlyChoices,
             c \in TargetChannelsChoices, x \in ExchangesChoices,
             tr \in TradingChoices, l \in LlmChoices}

InitLoad == arg \in [document : Documents] /\ IdlePipeline

ApplyLoad ==
    /\ ret = << >>
    /\ ret' = << load(arg.document) >>
    /\ UNCHANGED <<config, exchanges, events, tasks, orders, escaped, arg, phase>>

SpecLoad == InitLoad /\ [][ApplyLoad]_vars

\* ---- ConfigManager.save followed by load
\* The type YAML gives a plain (unquoted) scalar with this text.
PlainResolves(s) ==
    CASE s \in {"123", "9222"} -> "int"
      [] s \in {"true", "yes"} -> "bool"
      [] s \in {"null", "~", ""} -> "null"
      [] OTHER -> "str"

\* yaml.dump of a str: quoted when the plain text would read as another type.
yaml_dump_str(s) ==
    [style |-> IF PlainResolves(s) = "str" THEN "plain" ELSE "quoted", text |-> s]

\* yaml.safe_load of a scalar.
yaml_load_scalar(y) ==
    IF y.style = "quoted" THEN Text("str", y.text)
    ELSE Text(PlainResolves(y.text), y.text)

ReadBack(x) == IF x.t = "str" THEN yaml_load_scalar(yaml_dump_str(x.s)) ELSE x

ReadBackItem(s) ==
    IF ReadBack(Text("str", s)).t = "str" THEN s ELSE NonStringName

\* What safe_load reads from the file yaml.dump wrote for this dictionary.
yaml_round_trip(d) ==
    [d EXCEPT
       !.cdp_url = ReadBack(@),
       !.target_channels.items = [i \in 1..Len(@) |-> ReadBackItem(@[i])],
       !.exchanges.items = [i \in 1..Len(@) |->
            [@[i] EXCEPT !.name = ReadBack(@), !.api_key = ReadBack(@),
                         !.api_secret = ReadBack(@)]],
       !.trading.enabled_exchanges.items = [i \in 1..Len(@) |-> ReadBackItem(@[i])],
       !.llm.model = ReadBack(@),
       !.llm.api_key = ReadBack(@)]

\* Variant of _config_to_dict that writes no llm section.
_config_to_dict_no_llm(c) ==
    Document("dict", Text("str", c.cdp_url), c.read_only_mode, c.target_channels,
             List("list", [i \in 1..Len(c.exchanges) |->
                 [t |-> "dict",
                  name |-> Text("str", c.exchanges[i].name),
                  api_key |-> Text("str", c.exchanges[i].api_key),
                  api_secret |-> Text("str", c.exchanges[i].api_secret),
                  enabled |-> Flag("bool", c.exchanges[i].enabled)]]),
             TradingRaw("dict", c.trading.confidence_threshold,
                        c.trading.max_trade_amount_usdt,
                        List(IF c.trading.enabled_exchanges.iterable
                             THEN "list" ELSE "int",
                             c.trading.enabled_exchanges.items)),
             LlmRaw(Absent, Text(Absent, "")))

\* ConfigManager._config_to_dict
_config_to_dict(c) ==
    Document("dict", Text("str", c.cdp_url), c.read_only_mode, c.target_channels,
             List("list", [i \in 1..Len(c.exchanges) |->
                 [t |-> "dict",
                  name |-> Text("str", c.exchanges[i].name),
                  api_key |-> Text("str", c.exchanges[i].api_key),
                  api_secret |-> Text("str", c.exchanges[i].api_secret),
                  enabled |-> Flag("bool", c.exchanges[i].enabled)]]),
             TradingRaw("dict", c.trading.confidence_threshold,
                        c.trading.max_trade_amount_usdt,
                        List(IF c.trading.enabled_exchanges.iterable
                             THEN "list" ELSE "int",
                             c.trading.enabled_exchanges.items)),
             [t |-> "dict", model |-> Text("str", c.llm_model),
              api_key |-> Text("str", c.llm_api_key)])

\* ConfigManager.save: the document a later read of the written file gives.
save(c) == yaml_round_trip(_config_to_dict(c))

\* Valid configurations: every field of its declared type and every
\* AppConfig invariant met.
ValidExchangeConfigs ==
    {x \in [name : {"binance"}, api_key : {"k", "", "null"},
            api_secret : {"s"}, enabled : BOOLEAN] :
        x.enabled => x.api_key # ""}

ValidConfigs ==
    [cdp_url : {"http://localhost:9222"},
     target_channels : {List("list", s) :
                           s \in SeqsUpTo({"crypto-signals", "123"}, MaxTargets)},
     exchanges : SeqsUpTo(ValidExchangeConfigs, MaxExchangeConfigs),
     trading : [confidence_threshold : {Number("int", 0), Number("int", 100)},
                max_trade_amount_usdt : {Number("int", DefaultMaxAmount),
                                         Number("float", 1005),
                                         Number("inf", 0)},
                enabled_exchanges : {[iterable |-> TRUE, items |-> << >>],
                                     [iterable |-> TRUE, items |-> << "binance" >>]}],
     read_only_mode : {Flag("bool", TRUE), Flag("bool", FALSE)},
     llm_model : {"gpt-4o-mini"},
     llm_api_key : {"k", "true"}]

InitSaveLoad == arg \in [config : ValidConfigs] /\ IdlePipeline

ApplySaveLoad ==
    /\ ret = << >>
    /\ ret' = << load(save(arg.config)) >>
    /\ UNCHANGED <<config, exchanges, events, tasks, orders, escaped, arg, phase>>

SpecSaveLoad == InitSaveLoad /\ [][ApplySaveLoad]_vars

\* ---- ListenerScript.start, followed by the pipeline
\* What the components read from the loaded AppConfig.
PipelineConfig(c) ==
    [read_only_mode |-> c.read_only_mode.b,
     target_channels |-> c.target_channels.items,
     trading |-> [confidence_threshold |-> c.trading.confidence_threshold.n,
                  max_trade_amount_usdt |->
                      IF c.trading.max_trade_amount_usdt.t = "float"
                      THEN c.trading.max_trade_amount_usdt.n \div 10
                      ELSE IF c.trading.max_trade_amount_usdt.t = "nan"
                      THEN NaN
                      ELSE c.trading.max_trade_amount_usdt.n,
                  enabled_exchanges |-> c.trading.enabled_exchanges]]

Components ==
    {"channel_filter", "trading_agent", "exchange_client", "console_interceptor"}

\* Variant of start that goes on after load reported errors.
start_ignore_errors(document, cdp_ok, inject_ok) ==
    LET loaded == load(document)
    IN IF ~cdp_ok
       THEN [steps |-> << "load", "risk_warning", "connect_cdp", "shutdown", "exit" >>,
             loaded |-> loaded, components |-> {}, listening |-> FALSE]
       ELSE IF ~inject_ok
       THEN [steps |-> << "load", "risk_warning", "connect_cdp", "components",
                          "inject_observer", "shutdown", "exit" >>,
             loaded |-> loaded, components |-> Components, listening |-> FALSE]
       ELSE [steps |-> << "load", "risk_warning", "connect_cdp", "components",
                          "inject_observer", "listen" >>,
             loaded |-> loaded, components |-> Components, listening |-> TRUE]

\* ListenerScript.start up to the listening loop: the steps taken, what load
\* returned, the components created and whether the console listener is on.
start(document, cdp_ok, inject_ok) ==
    LET loaded == load(document)
    IN IF loaded.errors # << >>
       THEN [steps |-> << "load", "exit" >>,
             loaded |-> loaded, components |-> {}, listening |-> FALSE]
       ELSE IF ~cdp_ok
       THEN [steps |-> << "load", "risk_warning", "connect_cdp", "shutdown", "exit" >>,
             loaded |-> loaded, components |-> {}, listening |-> FALSE]
       ELSE IF ~inject_ok
       THEN [steps |-> << "load", "risk_warning", "connect_cdp", "components",
                          "inject_observer", "shutdown", "exit" >>,
             loaded |-> loaded, components |-> Components, listening |-> FALSE]
       ELSE [steps |-> << "load", "risk_warning", "connect_cdp", "components",
                          "inject_observer", "listen" >>,
             loaded |-> loaded, components |-> Components, listening |-> TRUE]

StartDocument(read_only_mode, exchanges_raw, confidence_threshold, max_trade_amount_usdt) ==
    Document("dict", Text("str", "http://localhost:9222"), read_only_mode,
             List("list", << "crypto-signals" >>), exchanges_raw,
             TradingRaw("dict", confidence_threshold, max_trade_amount_usdt,
                        List("list", << "binance" >>)),
             LlmRaw("dict", Text("str", "k")))

\* Documents tried at startup: no file, unreadable ones, and documents with
\* read_only_mode missing, true and false, with and without a usable
\* exchange entry, with a confidence_threshold in and out of range, and with
\* a max_trade_amount_usdt of 100 and of .nan.
StartDocuments ==
    {Document(k, Text(Absent, ""), Flag(Absent, FALSE), List(Absent, << >>),
              List(Absent, << >>),
              TradingRaw(Absent, Number(Absent, 0), Number(Absent, 0),
                         List(Absent, << >>)),
              LlmRaw(Absent, Text(Absent, ""))) :
        k \in {"missing", "yaml_error", "empty"}}
    \cup {StartDocument(r, x, c, a) :
             r \in {Flag(Absent, FALSE), Flag("bool", TRUE), Flag("bool", FALSE)},
             x \in {List(Absent, << >>),
                    List("list", << ExchangeRaw(Text("str", "binance"),
                                                Text("str", "k"),
                                                Flag("bool", TRUE)) >>),
                    List("list", << ExchangeRaw(Text("str", "binance"),
                                                Text("str", ""),
                                                Flag("bool", TRUE)) >>)},
             c \in {Number("int", DefaultThreshold), Number("int", 101)},
             a \in {Number("int", DefaultMaxAmount), Number("nan", 0)}}

InitStart ==
    /\ arg \in [document : StartDocuments, cdp_ok : BOOLEAN, inject_ok : BOOLEAN]
    /\ IdlePipeline

\* start runs to the listening loop or to sys.exit.
Start ==
    /\ ret = << >>
    /\ LET started == start(arg.document, arg.cdp_ok, arg.inject_ok)
       IN /\ ret' = << started >>
          /\ config' = IF started.loaded.config # << >>
                       THEN PipelineConfig(started.loaded.config[1])
                       ELSE config
          /\ exchanges' = IF "exchange_client" \in started.components
                             /\ started.loaded.config # << >>
                          THEN _init_exchanges(started.loaded.config[1].exchanges, {})
                          ELSE exchanges
    /\ UNCHANGED <<events, tasks, orders, escaped, arg, phase>>

Listening == ret # << >> /\ ret[1].listening

NextStart ==
    \/ Start
    \/ Listening /\ Next

SpecStart == InitStart /\ [][NextStart]_vars

\* ---- ConfigManager.load applied to one path several times
\* Number of loads of the same path.
MaxLoads == 2

\* Variant of load_path that writes the default file on every load.
load_path_always_generate(file) ==
    [file |-> DefaultDocument, writes |-> 1, result |-> load(DefaultDocument)]

\* ConfigManager.load on a path holding file (kind "missing": no file): the
\* file at the path afterwards, how often the file was written, and what
\* load returned.
load_path(file) ==
    IF file.kind = "missing"
    THEN [file |-> DefaultDocument, writes |-> 1, result |-> load(DefaultDocument)]
    ELSE [file |-> file, writes |-> 0, result |-> load(file)]

\* The file at the path before the next load.
FileAtPath == IF ret = << >> THEN arg.file ELSE ret[Len(ret)].file

InitLoadPath == arg \in [file : StartDocuments] /\ IdlePipeline

LoadPath ==
    /\ Len(ret) < MaxLoads
    /\ ret' = Append(ret, load_path(FileAtPath))
    /\ UNCHANGED <<config, exchanges, events, tasks, orders, escaped, arg, phase>>

SpecLoadPath == InitLoadPath /\ [][LoadPath]_vars

\* ---- The pipeline when every awaited call returns or fails
\* The next step of unit of work t: the event loop runs the spawned task, or
\* the call the task awaits returns or raises.
StepUnit(t) ==
    /\ t \in 1..Len(tasks)
    /\ \/ StartUnit(t)
       \/ \E response \in Responses : AnalyzeReturn(t, response)
       \/ \E outcome \in OrderOutcomes : OrderReturn(t, outcome)
       \/ \E ok \in BOOLEAN : ReloadReturn(t, ok)

\* Number of events taken in while the units of work are followed to their
\* end.
MaxFairEvents == 1

\* The pipeline over at most MaxFairEvents events.
NextFair ==
    \/ \E channel \in Channels : Len(events) < MaxFairEvents /\ OnMessage(channel)
    \/ \E t \in 1..Len(tasks) : StepUnit(t)

\* The event loop runs every ready task, and no awaited call hangs.
SpecFair ==
    Init /\ [][NextFair]_vars /\ \A t \in 1..MaxFairEvents : WF_vars(StepUnit(t))

\* ================================================================ properties
TaskIds == 1..Len(tasks)

Threshold == config.trading.confidence_threshold

MaxAmount == config.trading.max_trade_amount_usdt

\* The unit of work has received the answer of the analysis boundary.
Analysed(task) == task.analyses > 0 /\ task.pc \notin {"spawned", "analyze"}

\* The channel occurs in the configured target-channel list.
IsTarget(channel) ==
    \E i \in 1..Len(config.target_channels) : config.target_channels[i] = channel

\* C1: in read-only mode no unit of work ever calls place_order and no market
\* order is ever sent to an exchange, whatever signal the analysis returned.
C1_ReadOnlyNeverOrders ==
    config.read_only_mode =>
        /\ orders = {}
        /\ \A t \in TaskIds : tasks[t].calls = << >>

\* A read-only unit of work that ended holding a signal that meets the threshold,
\* with an initialised connector listed in enabled_exchanges.
C1_Witness ==
    /\ config.read_only_mode
    /\ "binance" \in exchanges
    /\ config.trading.enabled_exchanges.items = <<"binance", "bybit">>
    /\ \E t \in TaskIds : /\ tasks[t].pc = "done"
                          /\ tasks[t].signal # NoSignal
                          /\ tasks[t].signal.confidence >= Threshold

\* C2: in live mode no market order is sent for a signal whose confidence is
\* strictly below the threshold, and a place_order call is rejected for low
\* confidence only when the confidence is strictly below the threshold (a
\* confidence equal to the threshold is not rejected).
C2_ConfidenceGate ==
    ~config.read_only_mode =>
        /\ \A o \in orders : tasks[o.task].signal.confidence >= Threshold
        /\ \A t \in TaskIds : \A i \in 1..Len(tasks[t].calls) :
              tasks[t].calls[i].result = "skip_conf"
                  => tasks[t].signal.confidence < Threshold

\* One unit was rejected for a confidence one below the threshold and another
\* sent an order with a confidence equal to the threshold.
C2_Witness ==
    /\ ~config.read_only_mode
    /\ \E t \in TaskIds : /\ tasks[t].signal.confidence = Threshold - 1
                          /\ tasks[t].calls # << >>
                          /\ tasks[t].calls[1].result = "skip_conf"
    /\ \E o \in orders : tasks[o.task].signal.confidence = Threshold

C4_NonTargetDropped ==
    \A e \in 1..Len(events) :
        ~IsTarget(events[e].channel)
            => /\ ~events[e].passed
               /\ \A t \in TaskIds : tasks[t].ev # e
               /\ \A o \in orders : tasks[o.task].ev # e

\* A non-target event was dropped while a target-channel event of the same run
\* was analysed.
C4_Witness ==
    /\ config.target_channels # << >>
    /\ \E e \in 1..Len(events) : ~IsTarget(events[e].channel)
    /\ \E t \in TaskIds : tasks[t].analyses = 1

\* C5: when the analysis yields no candidate, the unit of work ends at once:
\* it makes no place_order call (where the confidence and amount checks live)
\* and sends no order.
C5_NoCandidateStops ==
    \A t \in TaskIds :
        (Analysed(tasks[t]) /\ tasks[t].signal = NoSignal)
            => /\ tasks[t].pc = "done"
               /\ tasks[t].calls = << >>
               /\ tasks[t].errors = << >>
               /\ \A o \in orders : o.task # t

\* A live-mode unit with a listed, initialised connector ended without a
\* candidate.
C5_Witness ==
    /\ ~config.read_only_mode
    /\ "binance" \in exchanges
    /\ config.trading.enabled_exchanges.items = <<"binance">>
    /\ \E t \in TaskIds : Analysed(tasks[t]) /\ tasks[t].signal = NoSignal

\* Results of a place_order call that placed no order.
NotPlaced ==
    {"skip_uninit", "skip_conf", "skip_amount",
     "fail_net", "fail_exch", "fail_unexp", "raised"}

\* C6: in live mode, for a signal that passes the confidence check, the unit
\* of work calls place_order with the entries of enabled_exchanges in listed
\* order, one call per entry; a call has returned before the next one starts,
\* and when the unit ends every entry has had its call.
C6_OrderedSequentialCalls ==
    ~config.read_only_mode =>
        \A t \in TaskIds :
            (Analysed(tasks[t]) /\ tasks[t].signal # NoSignal
                /\ tasks[t].signal.confidence >= Threshold)
            => LET items == config.trading.enabled_exchanges.items
                   calls == tasks[t].calls
               IN /\ Len(calls) <= Len(items)
                  /\ \A i \in 1..Len(calls) : calls[i].name = items[i]
                  /\ \A i \in 1..(Len(calls) - 1) : calls[i].result # "pending"
                  /\ tasks[t].pc = "done"
                        => /\ Len(calls) = Len(items)
                           /\ \A i \in 1..Len(calls) : calls[i].result # "pending"

\* Scenario C: two listed connectors both received their order, in order.
C6_Witness ==
    /\ ~config.read_only_mode
    /\ \E t \in TaskIds :
          /\ tasks[t].pc = "done"
          /\ tasks[t].signal.confidence >= Threshold
          /\ Len(tasks[t].calls) = 2
          /\ tasks[t].calls[1].exchange = "binance"
          /\ tasks[t].calls[2].exchange = "bybit"
          /\ tasks[t].calls[1].result = "placed"
          /\ tasks[t].calls[2].result = "placed"

\* C7: within one unit of work, a place_order call that failed, was skipped or
\* raised is followed by the call for the next listed exchange: whenever such
\* a call is not the last entry, the next entry's call has been made.
C7_FailureDoesNotStopLoop ==
    ~config.read_only_mode =>
        \A t \in TaskIds : \A i \in 1..Len(tasks[t].calls) :
            (tasks[t].calls[i].result \in NotPlaced /\ i < Len(tasks[t].names))
                => /\ Len(tasks[t].calls) > i
                   /\ tasks[t].calls[i + 1].name = tasks[t].names[i + 1]

\* Scenario E: the first connector failed with a network error, the second
\* placed the order.
C7_Witness ==
    \E t \in TaskIds :
        /\ Len(tasks[t].calls) = 2
        /\ tasks[t].calls[1].result = "fail_net"
        /\ tasks[t].calls[2].result = "placed"

\* C8: a failure inside one unit of work stays inside it: no exception leaves
\* a task, no task is removed, a step of one task leaves every other task as
\* it was, and the step that logs the failure changes neither the event
\* intake log nor the connector set.
C8_FailureContained ==
    [][ /\ escaped' = {}
        /\ Len(tasks') >= Len(tasks)
        /\ \A t \in TaskIds : tasks'[t].pc # "crashed"
        /\ \A t \in TaskIds : \A u \in TaskIds :
              (t # u /\ tasks'[t] # tasks[t]) => tasks'[u] = tasks[u]
        /\ (\E t \in TaskIds : Len(tasks'[t].errors) > Len(tasks[t].errors))
              => (events' = events /\ exchanges' = exchanges)
      ]_vars

\* A unit ended after its outer except logged a failure, while a later
\* event's unit is awaiting the analysis boundary.
C8_Witness ==
    \E t \in TaskIds : \E u \in TaskIds :
        /\ t < u
        /\ tasks[t].pc = "done"
        /\ tasks[t].errors = <<"unit">>
        /\ tasks[u].pc = "analyze"

\* C9: every place_order call sends at most one market order and performs at
\* most one market reload; it performs the reload exactly when
\* create_market_order failed with a network error, and then returns a failure
\* without sending the order again.
C9_SingleRecovery ==
    \A t \in TaskIds : \A i \in 1..Len(tasks[t].calls) :
        LET call == tasks[t].calls[i]
        IN /\ call.submits <= 1
           /\ call.reloads <= 1
           /\ (call.reloads = 1) <=> (call.outcome = "network")
           /\ (call.outcome = "network" /\ call.result # "pending")
                 => call.result = "fail_net"
           /\ Cardinality({o \in orders : o.task = t /\ o.call = i}) = call.submits

\* A finished call that hit a network error: one order sent, one reload.
C9_Witness ==
    \E t \in TaskIds : \E i \in 1..Len(tasks[t].calls) :
        /\ tasks[t].calls[i].outcome = "network"
        /\ tasks[t].calls[i].result = "fail_net"
        /\ tasks[t].calls[i].submits = 1
        /\ tasks[t].calls[i].reloads = 1
        /\ tasks[t].pc = "done"

\* The step in which _reconnect_exchange returns to place_order in task t.
ReconnectReturns(t) == tasks[t].pc = "reload" /\ tasks'[t] # tasks[t]

NeverRecovered(exchange) ==
    \A t \in TaskIds : \A i \in 1..Len(tasks[t].calls) :
        tasks[t].calls[i].exchange = exchange => tasks[t].calls[i].recovered # "ok"

Reloading(exchange) ==
    {t \in TaskIds : /\ tasks[t].pc = "reload"
                     /\ tasks[t].calls[Len(tasks[t].calls)].exchange = exchange}

C13_ExchangeErrorNoRecovery ==
    \A t \in TaskIds : \A i \in 1..Len(tasks[t].calls) :
        LET call == tasks[t].calls[i]
        IN call.outcome = "exchange" =>
             /\ call.result = "fail_exch"
             /\ call.reloads = 0
             /\ call.recovered = "none"
             /\ call.exchange \in exchanges
             /\ (i < Len(tasks[t].calls)
                    /\ tasks[t].calls[i + 1].exchange = call.exchange)
                   => tasks[t].calls[i + 1].submits = 1

\* An exchange error on a connector was followed by a placed order on the
\* same connector.
C13_Witness ==
    \E t \in TaskIds :
        /\ Len(tasks[t].calls) = 2
        /\ tasks[t].calls[1].outcome = "exchange"
        /\ tasks[t].calls[2].exchange = tasks[t].calls[1].exchange
        /\ tasks[t].calls[2].result = "placed"

\* C14: no place_order call ends by raising to its caller.
C14_PlaceOrderNeverRaises ==
    \A t \in TaskIds : \A i \in 1..Len(tasks[t].calls) :
        tasks[t].calls[i].result # "raised"

\* C15: should_process is false for every channel when the target list is
\* empty and otherwise true exactly when the channel is an element of the
\* list, compared as is; filter_message returns the message itself, all
\* fields unchanged, exactly when should_process is true, and nothing
\* otherwise.
C15_FilterContract ==
    ret # << >> =>
        LET targets == arg.target_channels
            members == {targets[i] : i \in 1..Len(targets)}
        IN /\ targets = << >> => ~ret[1].should
           /\ targets # << >> => (ret[1].should <=> arg.message.channel \in members)
           /\ ret[1].should => ret[1].filtered = <<arg.message>>
           /\ ~ret[1].should => ret[1].filtered = << >>

\* A message on the second of two target channels passed unchanged.
C15_Witness ==
    /\ ret # << >>
    /\ Len(arg.target_channels) = 2
    /\ arg.target_channels[2] = arg.message.channel
    /\ arg.target_channels[1] # arg.message.channel
    /\ ret[1].should
    /\ ret[1].filtered = <<arg.message>>

\* C16: after _init_exchanges the connector set holds an exchange exactly when
\* some entry for it (its name lower-cased) is enabled, names a supported
\* exchange and had its session created; a failed creation does not keep
\* later entries from being created.
C16_ConnectorSet ==
    ret # << >> =>
        LET configs == arg.configs
            Created(i) == /\ configs[i].enabled
                          /\ Lower(configs[i].name) \in SUPPORTED_EXCHANGES
                          /\ i \notin arg.fails
        IN /\ ret[1] \subseteq SUPPORTED_EXCHANGES
           /\ \A i \in 1..Len(configs) : Created(i) => Lower(configs[i].name) \in ret[1]
           /\ \A e \in ret[1] :
                 \E i \in 1..Len(configs) : Created(i) /\ Lower(configs[i].name) = e

\* The first entry's session creation failed and the second entry, for
\* another exchange, has its connector.
C16_Witness ==
    /\ ret # << >>
    /\ Len(arg.configs) = 2
    /\ arg.configs[1].enabled /\ arg.configs[1].name = "binance"
    /\ arg.configs[2].enabled /\ arg.configs[2].name = "bybit"
    /\ arg.fails = {1}
    /\ ret[1] = {"bybit"}

\* A console text that is not a well-formed inbound record.
Malformed(text) ==
    \/ text.kind # "object"
    \/ "type" \notin DOMAIN text.members
    \/ text.members["type"] # [t |-> "string", lit |-> DISCORD_MESSAGE]
    \/ \E f \in MessageFields :
          \/ f \notin DOMAIN text.members
          \/ text.members[f].t # "string"

\* C17: for a malformed inbound payload (wrong or missing type tag, missing
\* or non-string required field, non-object or unparsable JSON, empty string,
\* null) handle_console returns without printing and without invoking the
\* on_message callback.
C17_MalformedDropped ==
    (ret # << >> /\ Malformed(arg.text)) =>
        /\ ret[1].on_message = << >>
        /\ ~ret[1].printed

\* An object with all four fields but a wrong type tag was handled.
C17_Witness ==
    /\ ret # << >>
    /\ arg.text.kind = "object"
    /\ DOMAIN arg.text.members = {"type"} \cup MessageFields
    /\ arg.text.members["type"] = [t |-> "string", lit |-> << "a" >>]
    /\ \A f \in MessageFields : arg.text.members[f].t = "string"
    /\ ret[1].on_message = << >>

\* C18: parse_message(serialize_message(e)) is e, field for field, for every
\* well-formed message e, non-ASCII text included.
C18_RoundTrip ==
    ret # << >> => ret[1].parsed = << arg.message >>

\* A message whose content holds a non-ASCII character and a quote, which is
\* escaped on the wire, came back equal.
C18_Witness ==
    /\ ret # << >>
    /\ arg.message.content = << "CJK", "QUOTE" >>
    /\ ret[1].text.members["content"].lit = << "CJK", "BACKSLASH", "QUOTE" >>
    /\ ret[1].parsed = << arg.message >>

\* The four checks of a candidate, each stated on its own.
SideHolds(c) == c.side = "BUY" \/ c.side = "SELL"
ConfidenceHolds(c) == c.conf_type = "int" /\ c.confidence \in 0..100
SymbolHolds(c) == c.symbol \notin {"", " ", "   "}
SummaryHolds(c) == c.summary \notin {"", " ", "   "}

FailedChecks(c) ==
    {n \in {"side", "confidence", "symbol", "summary"} :
        \/ n = "side" /\ ~SideHolds(c)
        \/ n = "confidence" /\ ~ConfidenceHolds(c)
        \/ n = "symbol" /\ ~SymbolHolds(c)
        \/ n = "summary" /\ ~SummaryHolds(c)}

\* C19: validate returns exactly one violation for each failed check (side
\* not exactly BUY or SELL; confidence not a true integer in [0,100], a
\* boolean failing, 0 and 100 passing; symbol blank; summary blank), without
\* stopping early or merging: empty iff all four hold, four entries when all
\* four fail.
C19_OneViolationPerFailedCheck ==
    ret # << >> =>
        LET errors == ret[1]
            c == arg.signal
        IN /\ Len(errors) = Cardinality(FailedChecks(c))
           /\ {errors[i] : i \in 1..Len(errors)} = FailedChecks(c)
           /\ (errors = << >>) <=> (/\ SideHolds(c) /\ ConfidenceHolds(c)
                                    /\ SymbolHolds(c) /\ SummaryHolds(c))
           /\ (FailedChecks(c) = {"side", "confidence", "symbol", "summary"})
                 => Len(errors) = 4
           /\ c.conf_type = "bool" => \E i \in 1..Len(errors) : errors[i] = "confidence"
           /\ (c.conf_type = "int" /\ c.confidence \in {0, 100})
                 => \A i \in 1..Len(errors) : errors[i] # "confidence"

\* The candidate with all four problems was validated and gave four
\* violations.
C19_Witness ==
    /\ ret # << >>
    /\ arg.signal = [symbol |-> "", side |-> "HOLD", conf_type |-> "int",
                     confidence |-> 200, summary |-> ""]
    /\ Len(ret[1]) = 4

\* C20: analyze never raises to its caller; for every answer or error of
\* the analysis boundary it returns nothing or a TradeSignal that satisfies
\* all four TradeSignal invariants.
C20_AnalyzeNeverRaises ==
    ret # << >> =>
        /\ ~ret[1].raised
        /\ \/ ret[1].signal = NoSignal
           \/ /\ ret[1].signal.side \in {"BUY", "SELL"}
              /\ ret[1].signal.confidence \in 0..100
              /\ ret[1].signal.symbol \notin {"", " ", "   "}
              /\ ret[1].signal.summary \notin {"", " ", "   "}

\* An answer that is JSON but not an object, on which _parse_response lets
\* an AttributeError out, made analyze return nothing.
C20_Witness ==
    /\ ret # << >>
    /\ arg.response.kind = "non_object"
    /\ ret[1] = [raised |-> FALSE, signal |-> NoSignal]

\* C22: load returns a config together with no errors, or no config together
\* with at least one error, and nothing else.
C22_LoadShapes ==
    ret # << >> =>
        \/ Len(ret[1].config) = 1 /\ ret[1].errors = << >>
        \/ ret[1].config = << >> /\ ret[1].errors # << >>

\* A document that parses but has a confidence_threshold out of range was
\* loaded: no config, and the error.
C22_Witness ==
    /\ ret # << >>
    /\ arg.document.kind = "dict"
    /\ arg.document.trading.t = "dict"
    /\ arg.document.trading.confidence_threshold = Number("int", 101)
    /\ ret[1].config = << >>
    /\ ret[1].errors = << ParseError("trading.confidence_threshold:range", 0) >>

\* C23: a document whose target_channels is null is rejected by load with
\* errors.
C23_NullTargetChannelsRejected ==
    (/\ ret # << >>
     /\ arg.document.kind = "dict"
     /\ arg.document.target_channels.t = "null")
        => ret[1].config = << >> /\ ret[1].errors # << >>

\* C24: every configuration load accepts comes from a document in which each
\* enabled exchange entry supplies a non-empty api_key (missing, empty and
\* null are rejected).
C24_EnabledExchangeHasKey ==
    (ret # << >> /\ ret[1].config # << >> /\ arg.document.kind = "dict"
        /\ arg.document.exchanges.t = "list")
        => \A i \in 1..Len(arg.document.exchanges.items) :
              LET ex_raw == arg.document.exchanges.items[i]
              IN (ex_raw.t = "dict" /\ ex_raw.enabled = Flag("bool", TRUE))
                    => ex_raw.api_key.t = "str" /\ ex_raw.api_key.s # ""

\* C25: every configuration load accepts has confidence_threshold a true
\* integer in [0,100], max_trade_amount_usdt a number greater than 0 and
\* read_only_mode a boolean.
C25_AcceptedTradingFields ==
    (ret # << >> /\ ret[1].config # << >>) =>
        LET c == ret[1].config[1]
        IN /\ c.trading.confidence_threshold.t = "int"
           /\ c.trading.confidence_threshold.n \in 0..100
           /\ \/ c.trading.max_trade_amount_usdt.t = "inf"
              \/ /\ c.trading.max_trade_amount_usdt.t \in {"int", "float"}
                 /\ c.trading.max_trade_amount_usdt.n > 0
           /\ c.read_only_mode.t = "bool"

\* The violations a document shows, read off the document itself.
Violations(d) ==
    {ParseError("cdp_url", 0) : x \in {1} \cap
        (IF d.cdp_url.t \notin {Absent, "str"} THEN {1} ELSE {})}
    \cup {ParseError("target_channels", 0) : x \in {1} \cap
        (IF d.target_channels.t \notin {Absent, "null", "list"} THEN {1} ELSE {})}
    \cup {ParseError("exchanges", 0) : x \in {1} \cap
        (IF d.exchanges.t \notin {Absent, "null", "list"} THEN {1} ELSE {})}
    \cup {ParseError("exchanges[]", i) : i \in
        {j \in 1..Len(d.exchanges.items) : d.exchanges.items[j].t # "dict"}}
    \cup {ParseError("exchanges[].name", i) : i \in
        {j \in 1..Len(d.exchanges.items) :
            /\ d.exchanges.items[j].t = "dict"
            /\ ~(/\ d.exchanges.items[j].name.t = "str"
                 /\ d.exchanges.items[j].name.s \in {"binance", "bybit", "mexc"})}}
    \cup {ParseError("trading", 0) : x \in {1} \cap
        (IF d.trading.t \notin {Absent, "null", "dict"} THEN {1} ELSE {})}
    \cup {ParseError("trading.confidence_threshold:type", 0) : x \in {1} \cap
        (IF /\ d.trading.t = "dict"
            /\ d.trading.confidence_threshold.t \notin {Absent, "int"}
         THEN {1} ELSE {})}
    \cup {ParseError("trading.confidence_threshold:range", 0) : x \in {1} \cap
        (IF /\ d.trading.t = "dict"
            /\ d.trading.confidence_threshold.t = "int"
            /\ d.trading.confidence_threshold.n \notin 0..100
         THEN {1} ELSE {})}
    \cup {ParseError("read_only_mode", 0) : x \in {1} \cap
        (IF d.read_only_mode.t \notin {Absent, "bool"} THEN {1} ELSE {})}
    \cup {ParseError("llm", 0) : x \in {1} \cap
        (IF d.llm.t \notin {Absent, "null", "dict"} THEN {1} ELSE {})}

\* C26: the error list load returns for a document has an entry for every
\* violation the document shows, structural and field-validation alike.
C26_EveryViolationListed ==
    (ret # << >> /\ arg.document.kind = "dict") =>
        Violations(arg.document)
            \subseteq {ret[1].errors[i] : i \in 1..Len(ret[1].errors)}

\* C21: when load reports errors, start ends right after loading: it does
\* not connect, creates no channel filter, trading agent or exchange client,
\* and no event is ever processed.
C21_ConfigErrorsBlockStartup ==
    load(arg.document).errors # << >> =>
        /\ events = << >> /\ tasks = << >> /\ orders = {} /\ exchanges = {}
        /\ ret # << >> =>
              /\ ret[1].steps = << "load", "exit" >>
              /\ ret[1].components = {}
              /\ ~ret[1].listening

\* start ran on a document with a confidence_threshold out of range and
\* exited after loading.
C21_Witness ==
    /\ ret # << >>
    /\ arg.document.kind = "dict"
    /\ arg.document.trading.confidence_threshold = Number("int", 101)
    /\ arg.cdp_ok /\ arg.inject_ok
    /\ ret[1].loaded.errors # << >>
    /\ ret[1].steps = << "load", "exit" >>

\* C27: a document that does not state read_only_mode is loaded with
\* read_only_mode true, and no order is ever submitted.
C27_DefaultReadOnly ==
    (arg.document.kind = "dict" /\ arg.document.read_only_mode.t = Absent) =>
        /\ orders = {}
        /\ (ret # << >> /\ ret[1].loaded.config # << >>) =>
              /\ ret[1].loaded.config[1].read_only_mode = Flag("bool", TRUE)
              /\ config.read_only_mode

\* Started from a document without read_only_mode and with a usable
\* exchange, a unit got a signal at the threshold and ended without an order.
C27_Witness ==
    /\ arg.document.kind = "dict"
    /\ arg.document.read_only_mode.t = Absent
    /\ exchanges = {"binance"}
    /\ \E t \in 1..Len(tasks) :
          /\ tasks[t].pc = "done"
          /\ tasks[t].signal # NoSignal
          /\ tasks[t].signal.confidence >= config.trading.confidence_threshold
    /\ orders = {}

\* C28: for every valid configuration c, loading the file save wrote for c
\* returns a configuration equal to c and no errors.
C28_SaveLoadRoundTrip ==
    ret # << >> => ret[1] = [config |-> << arg.config >>, errors |-> << >>]

\* A configuration holding texts YAML must quote (an api_key "null", a
\* channel "123", an llm key "true") came back equal.
C28_Witness ==
    /\ ret # << >>
    /\ Len(arg.config.exchanges) = 2
    /\ arg.config.exchanges[1].api_key = "null"
    /\ arg.config.target_channels.items = << "123" >>
    /\ arg.config.llm_api_key = "true"
    /\ ret[1].config = << arg.config >>

\* C30: every market order submitted carries the symbol of the signal it was
\* placed for, unchanged, and that signal's side in lower case, which is
\* exactly "buy" or "sell".
C30_OrderSymbolAndSide ==
    \A o \in orders :
        /\ o.symbol = tasks[o.task].signal.symbol
        /\ o.side \in {"buy", "sell"}
        /\ o.side = "buy" <=> tasks[o.task].signal.side = "BUY"
        /\ o.side = "sell" <=> tasks[o.task].signal.side = "SELL"

\* An order for a BUY signal on BTC/USDT was submitted as "buy".
C30_Witness ==
    \E o \in orders :
        /\ tasks[o.task].signal.side = "BUY"
        /\ tasks[o.task].signal.symbol = "BTC/USDT"
        /\ o.side = "buy"
        /\ o.symbol = "BTC/USDT"

\* The call of task t that was in flight when the task was cancelled.
InterruptedCall(t) == tasks[t].calls[Len(tasks[t].calls)]

\* C29 as claimed: a connector call interrupted by the shutdown is reported
\* as an unexpected failure.
C29_InterruptedCallReported ==
    \A t \in 1..Len(tasks) :
        tasks[t].interrupted \in {"submit", "reload"}
            => InterruptedCall(t).result = "fail_unexp"

\* C29 as amended: once the event loop is closed every unit of work has
\* completed or was cancelled, none with an unhandled fault; a connector
\* call interrupted mid-flight has no result reported and its order was
\* sent once and is not sent again.
C29_ShutdownAbandonsUnits ==
    /\ escaped = {}
    /\ phase = "closed" =>
          \A t \in 1..Len(tasks) :
              /\ tasks[t].pc \in {"done", "cancelled"}
              /\ tasks[t].pc = "cancelled" <=> tasks[t].interrupted # "none"
              /\ tasks[t].interrupted \in {"submit", "reload"} =>
                    /\ InterruptedCall(t).result = "pending"
                    /\ InterruptedCall(t).submits = 1
                    /\ Cardinality({o \in orders :
                           o.task = t /\ o.call = Len(tasks[t].calls)}) = 1
                    /\ Len(tasks[t].calls) = tasks[t].idx

\* The loop was closed while one unit awaited create_market_order and
\* another had completed.
C29_Witness ==
    /\ phase = "closed"
    /\ \E t \in 1..Len(tasks) : tasks[t].interrupted = "submit"
    /\ \E t \in 1..Len(tasks) : tasks[t].pc = "done" /\ tasks[t].calls # << >>

\* C31: no event-processing step changes the configuration (trading settings
\* and target-channel list included) or the connector set: every step of the
\* pipeline, a failed market reload included, leaves both as they were.
C31_ConfigAndConnectorsFrozen ==
    [][config' = config /\ exchanges' = exchanges]_vars

\* A unit of work is over after a failed market reload and after an order was
\* filled, and the connector it reloaded is still in the connector set.
C31_Witness ==
    \E t \in TaskIds :
        /\ tasks[t].pc = "done"
        /\ \E i \in 1..Len(tasks[t].calls) :
              /\ tasks[t].calls[i].recovered = "failed"
              /\ tasks[t].calls[i].exchange \in exchanges
        /\ \E o \in orders : o.task = t
        /\ IsTarget(events[tasks[t].ev].channel)

\* The text is the payload inside a code fence: an opening fence at i, a
\* closing fence at j and the payload at m between them; everything else is
\* whitespace, but for a json tag that may follow the opening fence.
Fenced(text, payload) ==
    \E i, j, m \in 1..Len(text) :
        /\ i < m /\ m < j
        /\ text[i] = Fence /\ text[j] = Fence /\ text[m] = payload
        /\ \A k \in 1..Len(text) :
              \/ k \in {i, j, m}
              \/ text[k] = Ws
              \/ k = i + 1 /\ text[k] = JsonTag

\* C32: a completion that wraps a payload in code-fence delimiters, with or
\* without the json tag and with surrounding whitespace, parses to the same
\* result as the bare payload.
C32_FencedParsesAsBare ==
    ret # << >> =>
        \A p \in PayloadTokens :
            Fenced(arg.text, p) =>
                /\ ret[1].signal = _parse_response_text(<< p >>)
                /\ ret[1].signal = _parse_response(PayloadOf(p))

\* A signal came out of a fence without tag and with whitespace inside.
C32_Witness ==
    /\ ret # << >>
    /\ arg.text = << Ws, Fence, Ws, "{signal}", Ws, Fence >>
    /\ ret[1].signal # NoSignal
    /\ ret[1].cleaned = << "{signal}" >>

\* The integer part of a float held in tenths: the integer nearest to zero
\* that is less than one away from it.
Truncated(tenths) ==
    CHOOSE n \in -1000..1000 :
        IF tenths >= 0
        THEN 10 * n <= tenths /\ tenths < 10 * n + 10
        ELSE 10 * n >= tenths /\ tenths > 10 * n - 10

\* C33: a fractional confidence is truncated to an integer before validation:
\* the answer is accepted exactly when its other fields are valid and the
\* truncated value lies in [0,100], the signal carries the truncated value,
\* and the threshold check of place_order depends on the truncated value only.
C33_FloatConfidenceTruncated ==
    (ret # << >> /\ arg.response.kind = "json" /\ arg.response.has_signal
        /\ arg.response.conf_type = "float") =>
        LET truncated == Truncated(arg.response.confidence)
            others == /\ arg.response.side \in {"BUY", "SELL"}
                      /\ arg.response.symbol \notin {"", " ", "   "}
                      /\ arg.response.summary \notin {"", " ", "   "}
        IN /\ ret[1].signal # NoSignal <=> (others /\ truncated \in 0..100)
           /\ ret[1].signal # NoSignal =>
                 /\ ret[1].signal.confidence = truncated
                 /\ _check_confidence(ret[1].signal, config.trading)
                        <=> truncated >= Threshold

\* 69.9 was accepted as 69, below the threshold of 70.
C33_Witness ==
    /\ ret # << >>
    /\ arg.response.kind = "json"
    /\ arg.response.conf_type = "float"
    /\ arg.response.confidence = 699
    /\ ret[1].signal # NoSignal
    /\ ret[1].signal.confidence = 69
    /\ ~_check_confidence(ret[1].signal, config.trading)

\* C34: every market order the pipeline submits has the amount
\* max_trade_amount_usdt, and no place_order call made by the pipeline is
\* rejected for exceeding the maximum amount.
C34_PipelineAmountIsMax ==
    /\ \A o \in orders : o.amount = MaxAmount
    /\ \A t \in TaskIds : \A i \in 1..Len(tasks[t].calls) :
          tasks[t].calls[i].result # "skip_amount"

\* The connector name is named by an entry of enabled_exchanges (place_order
\* lower-cases the entry before it looks the connector up).
Listed(exchange) ==
    \E i \in 1..Len(config.trading.enabled_exchanges.items) :
        /\ IsStr(config.trading.enabled_exchanges.items[i])
        /\ Lower(config.trading.enabled_exchanges.items[i]) = exchange

\* C35: a market order goes only to an exchange that is both listed in
\* enabled_exchanges and present in the connector set; a call for a listed
\* name without connector makes no network call, and an initialised
\* connector that is not listed receives no order.
C35_OrdersOnlyToListedConnectors ==
    /\ \A o \in orders : o.exchange \in exchanges /\ Listed(o.exchange)
    /\ \A t \in TaskIds : \A i \in 1..Len(tasks[t].calls) :
          tasks[t].calls[i].exchange \notin exchanges =>
              /\ tasks[t].calls[i].submits = 0
              /\ tasks[t].calls[i].reloads = 0
              /\ tasks[t].calls[i].outcome = "none"
    /\ \A e \in exchanges :
          ~Listed(e) => ~\E o \in orders : o.exchange = e

\* kraken and binance are listed, binance and bybit are initialised: the unit
\* of work is over, the kraken call was skipped, binance received the order
\* and bybit received nothing.
C35_Witness ==
    /\ config.trading.enabled_exchanges.items = <<"kraken", "binance">>
    /\ exchanges = {"binance", "bybit"}
    /\ \E t \in TaskIds :
          /\ tasks[t].pc = "done"
          /\ Len(tasks[t].calls) = 2
          /\ tasks[t].calls[1].result = "skip_uninit"
          /\ tasks[t].calls[2].result = "placed"
          /\ \E o \in orders : o.task = t /\ o.exchange = "binance"
    /\ ~\E o \in orders : o.exchange \in {"bybit", "kraken"}

\* The market orders that unit of work t sent to the connector.
OrdersTo(t, exchange) == {o \in orders : o.task = t /\ o.exchange = exchange}

\* The entries of the list that unit of work t iterates which name the
\* connector.
EntriesNaming(t, exchange) ==
    {i \in 1..Len(tasks[t].names) :
        IsStr(tasks[t].names[i]) /\ Lower(tasks[t].names[i]) = exchange}

\* C36 as stated: for one approved event each initialised connector is
\* submitted at most one market order, whatever enabled_exchanges holds.
C36_OneOrderPerConnector ==
    \A t \in TaskIds : \A e \in exchanges : Cardinality(OrdersTo(t, e)) <= 1

\* C36, amended: for one approved event a connector is submitted at most one
\* market order per entry of enabled_exchanges that names it; a connector
\* named by several entries (a repeated name, or names that differ only in
\* letter case) is submitted one order per such entry.
C36_OneOrderPerEntry ==
    \A t \in TaskIds : \A e \in exchanges :
        /\ Cardinality(OrdersTo(t, e)) <= Cardinality(EntriesNaming(t, e))
        /\ \A o \in OrdersTo(t, e) : o.call \in EntriesNaming(t, e)

\* Binance and binance are both listed: one unit of work sent two market
\* orders to the binance connector.
C36_Witness ==
    \E t \in TaskIds :
        /\ tasks[t].pc = "done"
        /\ tasks[t].names = <<"Binance", "binance">>
        /\ Cardinality(OrdersTo(t, "binance")) = 2

\* C37: the first load of a path without file writes the default file and
\* loads it; the default is rejected for its empty llm.api_key, so load
\* returns no config and that error and start exits after load; every later
\* load of the path returns the same result and writes nothing.
C37_MissingFileDefaultRejected ==
    (arg.file.kind = "missing" /\ ret # << >>) =>
        /\ ret[1].file = DefaultDocument
        /\ ret[1].writes = 1
        /\ ret[1].result = [config |-> << >>,
                            errors |-> << ParseError("llm.api_key", 0) >>]
        /\ start(arg.file, TRUE, TRUE).steps = << "load", "exit" >>
        /\ ~start(ret[1].file, TRUE, TRUE).listening
        /\ \A n \in 2..Len(ret) :
              /\ ret[n].result = ret[1].result
              /\ ret[n].writes = 0
              /\ ret[n].file = ret[1].file

\* The path held no file and was loaded twice.
C37_Witness ==
    /\ arg.file.kind = "missing"
    /\ Len(ret) = 2
    /\ ret[1].writes = 1
    /\ ret[2].writes = 0
    /\ ret[2].result.errors # << >>

\* Unit of work t exists.
Spawned(t) == t <= Len(tasks)

\* Unit of work t has run to its end.
Finished(t) == t <= Len(tasks) /\ tasks[t].pc = "done"

\* C38: when every analysis call and every exchange call returns or fails,
\* each unit of work eventually finishes, and it makes at most one analysis
\* call, at most one place_order call and one order submission per entry of
\* enabled_exchanges, and at most one market reload per submission.
C38_UnitTerminates ==
    /\ \A t \in 1..MaxFairEvents : [](Spawned(t) => <>Finished(t))
    /\ [](\A t \in TaskIds :
            /\ tasks[t].analyses <= 1
            /\ Len(tasks[t].calls) <= Len(tasks[t].names)
            /\ Cardinality({o \in orders : o.task = t}) <= Len(tasks[t].names)
            /\ \A i \in 1..Len(tasks[t].calls) :
                  /\ tasks[t].calls[i].submits <= 1
                  /\ tasks[t].calls[i].reloads <= tasks[t].calls[i].submits)

\* A unit of work is over after one analysis call and one call per entry of
\* a list of two, one of which reloaded the markets once.
C38_Witness ==
    \E t \in TaskIds :
        /\ tasks[t].pc = "done"
        /\ tasks[t].analyses = 1
        /\ Len(tasks[t].names) = 2
        /\ Len(tasks[t].calls) = 2
        /\ tasks[t].calls[1].reloads = 1
        /\ tasks[t].calls[2].submits = 1

====
